---- MODULE Spec2Model ----
(***************************************************************************)
(* Deterministic chat classification and screening scoring engine of the   *)
(* digital psychological intervention system.                              *)
(*                                                                         *)
(* JavaScript strings are TLA+ strings; TLC evaluates Len, SubSeq and \o   *)
(* on them, so substring search and case folding are computed character    *)
(* by character.  A JavaScript number that is a ratio of two small         *)
(* integers (the classifier's confidence) is the record [num, den], and    *)
(* comparisons of such numbers are done by cross-multiplication.  Times    *)
(* are counted in hours instead of milliseconds.                           *)
(***************************************************************************)
EXTENDS Integers, Sequences, FiniteSets, TLC

VARIABLES
    op,          \* the operation the request is for
    pc,          \* "call" before the operation has run, "done" after
    text,        \* classify: the user's message
    history,     \* classify: previous messages of the session
    screenings,  \* classify: the screening records passed alongside
    now,         \* classify: the value Date.now() returns during the call
    confidence,  \* the keyword density the severity is derived from
    classification, \* what classify returned
    language,    \* buildResponse: the language asked for
    response,    \* what buildResponse returned or threw
    answers,     \* scorePHQ9 / scoreGAD7: the submitted answers
    result,      \* what the operation returned or threw
    reqType,     \* getRecommendations: the argument type
    reqBand,     \* getRecommendations: the argument severityBand
    chatMessages,     \* database: the chat messages of the session, oldest first
    session,          \* database: the chat session of the request
    storedScreenings, \* database: the screenings of the caller
    reply,            \* the HTTP answer of the request
    bookings,         \* database: the bookings
    requests          \* POST /bookings: the requests in progress

\* The variables of the operations other than the classifier, the response
\* builder and the scorer.
otherVars ==
    <<reqType, reqBand, chatMessages, session, storedScreenings, reply,
      bookings, requests>>

\* The variables of the database and of the HTTP requests.
routeVars == <<chatMessages, session, storedScreenings, reply, bookings, requests>>

vars ==
    <<op, pc, text, history, screenings, now, confidence, classification,
      language, response, answers, result, reqType, reqBand, chatMessages,
      session, storedScreenings, reply, bookings, requests>>

\* The value of a variable the current operation does not use.
None == [type |-> "none"]

\* No HTTP request is in progress.
RoutesIdle ==
    /\ chatMessages = None
    /\ session = None
    /\ storedScreenings = None
    /\ reply = None
    /\ bookings = None
    /\ requests = None

\* No operation other than the classifier, the response builder and the
\* scorer is in progress.
OthersIdle ==
    /\ reqType = None
    /\ reqBand = None
    /\ RoutesIdle

(***************************************************************************)
(* Strings                                                                 *)
(***************************************************************************)

\* The upper-case letters and their lower-case forms.
LowerCaseOf ==
    [A |-> "a", B |-> "b", C |-> "c", D |-> "d", E |-> "e", F |-> "f",
     G |-> "g", H |-> "h", I |-> "i", J |-> "j", K |-> "k", L |-> "l",
     M |-> "m", N |-> "n", O |-> "o", P |-> "p", Q |-> "q", R |-> "r",
     S |-> "s", T |-> "t", U |-> "u", V |-> "v", W |-> "w", X |-> "x",
     Y |-> "y", Z |-> "z"]

\* String.prototype.toLowerCase on one character: only letters change.
LowerChar(c) == IF c \in DOMAIN LowerCaseOf THEN LowerCaseOf[c] ELSE c

RECURSIVE toLowerCase(_)
toLowerCase(s) ==
    IF Len(s) = 0 THEN ""
    ELSE LowerChar(SubSeq(s, 1, 1)) \o toLowerCase(SubSeq(s, 2, Len(s)))

\* includes that looks at the start of hay only.
includes_atStart(hay, needle) ==
    /\ Len(needle) <= Len(hay)
    /\ SubSeq(hay, 1, Len(needle)) = needle

\* String.prototype.includes: needle occurs in hay at some position.
includes(hay, needle) ==
    \E i \in 1..(Len(hay) - Len(needle) + 1) :
        SubSeq(hay, i, i + Len(needle) - 1) = needle

(***************************************************************************)
(* Trigger tables                                                          *)
(***************************************************************************)

\* The keys of CATEGORY_TRIGGERS in insertion order (what Object.entries
\* enumerates).
CategoryOrder ==
    <<"ANXIETY", "DEPRESSION", "STRESS_BURNOUT", "SLEEP", "ACADEMIC_STRESS",
      "SOCIAL_ISOLATION", "CRISIS">>

CATEGORY_TRIGGERS ==
    [ANXIETY |->
        <<"anxious", "nervous", "panic", "racing heart", "short of breath",
          "worry", "restless", "tense", "fear", "phobia", "overwhelmed",
          "stressed out", "can't calm down", "butterflies", "sweating",
          "trembling", "dread">>,
     DEPRESSION |->
        <<"sad", "depressed", "hopeless", "worthless", "empty", "lonely",
          "no energy", "tired all the time", "can't sleep", "no motivation",
          "nothing matters", "give up", "pointless", "numb", "crying",
          "no interest", "isolated", "darkness">>,
     STRESS_BURNOUT |->
        <<"stressed", "burnout", "exhausted", "overwhelmed", "pressure",
          "too much work", "can't cope", "breaking point", "workload",
          "deadline stress", "performance anxiety", "juggling too much">>,
     SLEEP |->
        <<"can't sleep", "insomnia", "nightmares", "tired", "fatigue",
          "staying up late", "tossing and turning", "sleep problems",
          "waking up early", "restless sleep", "no rest">>,
     ACADEMIC_STRESS |->
        <<"exam stress", "failing", "grades", "study pressure",
          "academic pressure", "can't focus", "procrastination",
          "behind in studies", "test anxiety", "assignment stress",
          "performance pressure", "academic failure">>,
     SOCIAL_ISOLATION |->
        <<"alone", "lonely", "no friends", "isolated", "social anxiety",
          "can't connect", "withdrawn", "nobody understands", "left out",
          "social pressure", "awkward", "shy">>,
     CRISIS |->
        <<"suicidal", "end it all", "harm myself", "self-harm", "kill myself",
          "life not worth living", "want to die", "suicide", "cut myself",
          "overdose", "jump", "hanging", "razor", "pills", "end my life",
          "better off dead", "no point living", "can't go on">>]

SEVERITY_LEVELS ==
    [LOW |-> "low", MODERATE |-> "moderate", HIGH |-> "high", CRISIS |-> "crisis"]

(***************************************************************************)
(* classify                                                                *)
(***************************************************************************)

\* a < b for two ratios with positive denominators.
RatioLess(a, b) == a.num * b.den < b.num * a.den

\* a > the decimal literal tenths/10.
RatioAbove(a, tenths) == a.num * 10 > tenths * a.den

\* keyword.toLowerCase() for every keyword of every list.
LoweredTriggers ==
    [category \in DOMAIN CATEGORY_TRIGGERS |->
        [i \in DOMAIN CATEGORY_TRIGGERS[category] |->
            toLowerCase(CATEGORY_TRIGGERS[category][i])] @@ <<>>]
    @@ <<>>

\* CATEGORY_TRIGGERS.CRISIS.some(keyword => normalizedText.includes(...)).
hasCrisisKeywords(normalizedText) ==
    \E i \in DOMAIN LoweredTriggers.CRISIS :
        includes(normalizedText, LoweredTriggers.CRISIS[i])

\* keywords.filter(keyword => normalizedText.includes(...)).length
matches(normalizedText, category) ==
    Cardinality({i \in DOMAIN LoweredTriggers[category] :
                    includes(normalizedText, LoweredTriggers[category][i])})

\* categoryScores with the count divided by the square of the list's length.
categoryScores_squaredLength(normalizedText) ==
    LET scored == [i \in DOMAIN CategoryOrder |->
                     LET category == CategoryOrder[i]
                     IN  [category |-> category,
                          score |-> [num |-> matches(normalizedText, category),
                                     den |-> Len(CATEGORY_TRIGGERS[category])
                                             * Len(CATEGORY_TRIGGERS[category])]]]
    IN  SelectSeq(scored, LAMBDA e : e.category # "CRISIS")

\* Object.entries(categoryScores): one [category, score] entry per key of
\* CATEGORY_TRIGGERS other than CRISIS, in insertion order.
categoryScores(normalizedText) ==
    LET scored == [i \in DOMAIN CategoryOrder |->
                     LET category == CategoryOrder[i]
                     IN  [category |-> category,
                          score |-> [num |-> matches(normalizedText, category),
                                     den |-> Len(CATEGORY_TRIGGERS[category])]]]
    IN  SelectSeq(scored, LAMBDA e : e.category # "CRISIS")

\* bestCategory with equal scores resolved to the entry enumerated last.
bestCategory_lastWins(entries) ==
    LET last == CHOOSE i \in DOMAIN entries :
                   /\ \A j \in DOMAIN entries :
                         ~RatioLess(entries[i].score, entries[j].score)
                   /\ \A j \in (i + 1)..Len(entries) :
                         RatioLess(entries[j].score, entries[i].score)
    IN  entries[last]

\* entries.sort(([,a], [,b]) => b - a)[0]: the sort is stable, so the head
\* of the sorted array is the first entry that no entry exceeds.
bestCategory(entries) ==
    LET first == CHOOSE i \in DOMAIN entries :
                    /\ \A j \in DOMAIN entries :
                          ~RatioLess(entries[i].score, entries[j].score)
                    /\ \A j \in 1..(i - 1) :
                          RatioLess(entries[j].score, entries[i].score)
    IN  entries[first]

\* densitySeverity with >= in place of >.
densitySeverity_inclusive(density) ==
    LET s1 == IF ~RatioLess(density, [num |-> 3, den |-> 10])
              THEN SEVERITY_LEVELS.MODERATE
              ELSE SEVERITY_LEVELS.LOW
    IN  IF ~RatioLess(density, [num |-> 6, den |-> 10])
        THEN SEVERITY_LEVELS.HIGH ELSE s1

\* The severity derived from the keyword density alone.
densitySeverity(density) ==
    LET s1 == IF RatioAbove(density, 3) THEN SEVERITY_LEVELS.MODERATE
              ELSE SEVERITY_LEVELS.LOW
    IN  IF RatioAbove(density, 6) THEN SEVERITY_LEVELS.HIGH ELSE s1

\* Hours per day: the divisor 1000 * 60 * 60 * 24 in the model's time unit.
HOURS_PER_DAY == 24

\* The recency window, in days.
WINDOW_DAYS == 60

\* (Date.now() - new Date(s.createdAt)) / (1000 * 60 * 60 * 24) <= 60.  A
\* record without createdAt gives an invalid date: the difference is NaN and
\* the comparison is false.
withinWindow(s, t) ==
    IF "createdAt" \in DOMAIN s
    THEN t - s.createdAt <= WINDOW_DAYS * HOURS_PER_DAY
    ELSE FALSE

\* withinWindow with < in place of <=.
recentScreenings_exclusive(list, t) ==
    SelectSeq(list, LAMBDA s : "createdAt" \in DOMAIN s
                               /\ t - s.createdAt < WINDOW_DAYS * HOURS_PER_DAY)

\* screenings.filter(s => daysDiff <= 60), keeping the list order.
recentScreenings(list, t) == SelectSeq(list, LAMBDA s : withinWindow(s, t))

\* latestScreening without the sort: the first record of the list.
latestScreening_unsorted(recent) == recent[1]

\* recent.sort((a, b) => new Date(b.createdAt) - new Date(a.createdAt))[0]:
\* the first of the records with the greatest createdAt.
latestScreening(recent) ==
    LET first == CHOOSE i \in DOMAIN recent :
                    /\ \A j \in DOMAIN recent :
                          recent[j].createdAt <= recent[i].createdAt
                    /\ \A j \in 1..(i - 1) :
                          recent[j].createdAt < recent[i].createdAt
    IN  recent[first]

\* latestScreening.severityBand: a record without the property gives
\* undefined, which is equal to no band.
severityBandOf(s) ==
    IF "severityBand" \in DOMAIN s THEN s.severityBand ELSE "undefined"

\* A TypeError: a property was read from undefined.
TypeError == [threw |-> TRUE, error |-> "TypeError"]

\* augmentSeverity raising a severe band to the crisis level.
augmentSeverity_toCrisis(severity, list, t) ==
    LET recent == recentScreenings(list, t)
    IN  IF Len(recent) > 0
        THEN LET latest == latestScreening(recent)
             IN  IF severityBandOf(latest) = "severe"
                    \/ severityBandOf(latest) = "moderate-severe"
                 THEN SEVERITY_LEVELS.CRISIS
                 ELSE IF severityBandOf(latest) = "moderate"
                         /\ severity = SEVERITY_LEVELS.LOW
                      THEN SEVERITY_LEVELS.MODERATE
                      ELSE severity
        ELSE severity

\* augmentSeverity without the test severity === LOW on a moderate band.
augmentSeverity_overrides(severity, list, t) ==
    LET recent == recentScreenings(list, t)
    IN  IF Len(recent) > 0
        THEN LET band == severityBandOf(latestScreening(recent))
             IN  IF band = "severe" \/ band = "moderate-severe"
                 THEN SEVERITY_LEVELS.HIGH
                 ELSE IF band = "moderate"
                      THEN SEVERITY_LEVELS.MODERATE
                      ELSE severity
        ELSE severity

\* The severity after the latest recent screening has been taken into account.
augmentSeverity(severity, list, t) ==
    LET recent == recentScreenings(list, t)
    IN  IF Len(recent) > 0
        THEN LET latest == latestScreening(recent)
             IN  IF severityBandOf(latest) = "severe"
                    \/ severityBandOf(latest) = "moderate-severe"
                 THEN SEVERITY_LEVELS.HIGH
                 ELSE IF severityBandOf(latest) = "moderate"
                         /\ severity = SEVERITY_LEVELS.LOW
                      THEN SEVERITY_LEVELS.MODERATE
                      ELSE severity
        ELSE severity

\* classify with the crisis test made after the category scoring, for the
\* texts no category matched.
classify_crisisLast(txt, hist, list, t) ==
    LET normalizedText == toLowerCase(txt)
        best == bestCategory(categoryScores(normalizedText))
    IN  IF best.score.num # 0
        THEN [category |-> best.category,
              severity |-> augmentSeverity(densitySeverity(best.score), list, t),
              crisis |-> FALSE,
              confidence |-> best.score]
        ELSE IF hasCrisisKeywords(normalizedText)
        THEN [category |-> "CRISIS", severity |-> SEVERITY_LEVELS.CRISIS,
              crisis |-> TRUE, confidence |-> [num |-> 1, den |-> 1]]
        ELSE [category |-> "GENERAL", severity |-> SEVERITY_LEVELS.LOW,
              crisis |-> FALSE, confidence |-> [num |-> 0, den |-> 1]]

\* classify with the text of the last previous message read before the text.
classify_readsHistory(txt, hist, list, t) ==
    LET normalizedText ==
            toLowerCase(IF Len(hist) > 0
                        THEN hist[Len(hist)].text \o " " \o txt
                        ELSE txt)
    IN  IF hasCrisisKeywords(normalizedText)
        THEN [category |-> "CRISIS", severity |-> SEVERITY_LEVELS.CRISIS,
              crisis |-> TRUE, confidence |-> [num |-> 1, den |-> 1]]
        ELSE LET best == bestCategory(categoryScores(normalizedText))
             IN  IF best.score.num = 0
                 THEN [category |-> "GENERAL", severity |-> SEVERITY_LEVELS.LOW,
                       crisis |-> FALSE, confidence |-> [num |-> 0, den |-> 1]]
                 ELSE [category |-> best.category,
                       severity |-> augmentSeverity(densitySeverity(best.score),
                                                    list, t),
                       crisis |-> FALSE,
                       confidence |-> best.score]

\* classify with a refusal of the empty text before anything else.
classify_rejectsEmpty(txt, hist, list, t) ==
    IF txt = ""
    THEN TypeError
    ELSE LET normalizedText == toLowerCase(txt)
         IN  IF hasCrisisKeywords(normalizedText)
             THEN [category |-> "CRISIS", severity |-> SEVERITY_LEVELS.CRISIS,
                   crisis |-> TRUE, confidence |-> [num |-> 1, den |-> 1]]
             ELSE LET best == bestCategory(categoryScores(normalizedText))
                  IN  IF best.score.num = 0
                      THEN [category |-> "GENERAL",
                            severity |-> SEVERITY_LEVELS.LOW,
                            crisis |-> FALSE,
                            confidence |-> [num |-> 0, den |-> 1]]
                      ELSE [category |-> best.category,
                            severity |-> augmentSeverity(
                                             densitySeverity(best.score), list, t),
                            crisis |-> FALSE,
                            confidence |-> best.score]

\* classify with the screening augmentation applied to GENERAL as well.
classify_augmentGeneral(txt, hist, list, t) ==
    LET normalizedText == toLowerCase(txt)
    IN  IF hasCrisisKeywords(normalizedText)
        THEN [category |-> "CRISIS", severity |-> SEVERITY_LEVELS.CRISIS,
              crisis |-> TRUE, confidence |-> [num |-> 1, den |-> 1]]
        ELSE LET best == bestCategory(categoryScores(normalizedText))
             IN  IF best.score.num = 0
                 THEN [category |-> "GENERAL",
                       severity |-> augmentSeverity(SEVERITY_LEVELS.LOW, list, t),
                       crisis |-> FALSE, confidence |-> [num |-> 0, den |-> 1]]
                 ELSE [category |-> best.category,
                       severity |-> augmentSeverity(densitySeverity(best.score),
                                                    list, t),
                       crisis |-> FALSE,
                       confidence |-> best.score]

classify(txt, hist, list, t) ==
    LET normalizedText == toLowerCase(txt)
    IN  IF hasCrisisKeywords(normalizedText)
        THEN [category |-> "CRISIS", severity |-> SEVERITY_LEVELS.CRISIS,
              crisis |-> TRUE, confidence |-> [num |-> 1, den |-> 1]]
        ELSE LET best == bestCategory(categoryScores(normalizedText))
             IN  IF best.score.num = 0
                 THEN [category |-> "GENERAL", severity |-> SEVERITY_LEVELS.LOW,
                       crisis |-> FALSE, confidence |-> [num |-> 0, den |-> 1]]
                 ELSE [category |-> best.category,
                       severity |-> augmentSeverity(densitySeverity(best.score),
                                                    list, t),
                       crisis |-> FALSE,
                       confidence |-> best.score]

(***************************************************************************)
(* buildResponse                                                           *)
(***************************************************************************)

\* The Hindi sentences are written here by their English key, in ASCII.
RESPONSE_TEMPLATES ==
    [en |->
       [ANXIETY |->
          [validation |-> "I understand you're feeling anxious right now. That's a very real and valid experience.",
           strategies |->
             <<"Try the 4-7-8 breathing technique: Breathe in for 4, hold for 7, exhale for 8.",
               "Ground yourself using the 5-4-3-2-1 technique: Name 5 things you see, 4 you can touch, 3 you hear, 2 you smell, 1 you taste.",
               "Progressive muscle relaxation can help: Tense and release each muscle group from your toes to your head.">>,
           psychoeducation |-> "Anxiety is your body's natural response to stress. While uncomfortable, these feelings are temporary and manageable.",
           next_steps |-> "Consider taking our anxiety screening (GAD-7) or booking a session with a counsellor for ongoing support."],
        DEPRESSION |->
          [validation |-> "I hear that you're going through a difficult time. These feelings of sadness and emptiness are real.",
           strategies |->
             <<"Try to maintain a daily routine, even a simple one.",
               "Engage in small, achievable activities that used to bring you joy.",
               "Consider reaching out to a trusted friend or family member.">>,
           psychoeducation |-> "Depression affects how you think, feel, and act. It's a medical condition that can be treated effectively.",
           next_steps |-> "Taking our depression screening (PHQ-9) can help assess your symptoms. Professional support is available."],
        STRESS_BURNOUT |->
          [validation |-> "Feeling overwhelmed by stress and responsibilities is more common than you might think.",
           strategies |->
             <<"Break large tasks into smaller, manageable steps.",
               "Practice saying 'no' to additional commitments when possible.",
               "Schedule regular breaks and self-care activities.">>,
           psychoeducation |-> "Chronic stress can lead to burnout, affecting your physical and mental health. Recovery is possible with proper support.",
           next_steps |-> "Consider stress management techniques and speaking with a counsellor about workload management."],
        SLEEP |->
          [validation |-> "Sleep difficulties can be frustrating and impact many areas of your life.",
           strategies |->
             <<"Maintain a consistent sleep schedule, even on weekends.",
               "Create a relaxing bedtime routine without screens.",
               "Keep your bedroom cool, dark, and quiet.">>,
           psychoeducation |-> "Good sleep hygiene is essential for mental health. Sleep problems often improve with consistent practices.",
           next_steps |-> "If sleep problems persist, consider discussing them with a healthcare provider or counsellor."],
        ACADEMIC_STRESS |->
          [validation |-> "Academic pressure can feel overwhelming, especially when you want to do well.",
           strategies |->
             <<"Break study sessions into focused 25-minute blocks with short breaks.",
               "Create a realistic study schedule that includes time for rest.",
               "Reach out to teachers or academic advisors when you need help.">>,
           psychoeducation |-> "Academic stress is common among students. Learning effective study strategies can reduce anxiety and improve performance.",
           next_steps |-> "Our counsellors can help with study strategies and managing academic pressure."],
        SOCIAL_ISOLATION |->
          [validation |-> "Feeling disconnected from others can be lonely and painful.",
           strategies |->
             <<"Start with small social interactions, like greeting classmates or colleagues.",
               "Join clubs or activities aligned with your interests.",
               "Consider online communities related to your hobbies or concerns.">>,
           psychoeducation |-> "Social connections are vital for mental health. Building relationships takes time and practice.",
           next_steps |-> "Our peer support forum might be a good place to start connecting with others who understand."],
        CRISIS |->
          [immediate_safety |-> "I'm very concerned about what you've shared. Your life has value, and help is available right now.",
           crisis_resources |-> "Please reach out immediately to a crisis helpline or emergency services if you're in immediate danger.",
           support_available |-> "You don't have to go through this alone. Professional help and support are available.",
           next_steps |-> "Please consider speaking with a mental health professional as soon as possible."]],
     hi |->
       [ANXIETY |->
          [validation |-> "[hi] I understand you're feeling anxious right now. This is a real and valid experience.",
           strategies |->
             <<"[hi] Try the 4-7-8 breathing technique: breathe in for 4, hold for 7, exhale for 8.",
               "[hi] Ground yourself with the 5-4-3-2-1 technique: see 5 things, touch 4, hear 3, smell 2, taste 1.">>,
           psychoeducation |-> "[hi] Anxiety is your body's natural response to stress. Though uncomfortable, these feelings are temporary.",
           next_steps |-> "[hi] Consider taking our anxiety screening (GAD-7) or booking a session with a counsellor."]]]

\* Property names every JavaScript object inherits from Object.prototype;
\* RESPONSE_TEMPLATES[name] is then a truthy value that holds no template.
ObjectPrototypeKeys ==
    {"constructor", "toString", "valueOf", "hasOwnProperty", "__proto__"}

\* An object with none of the properties that are looked up.
NoTemplates == [k \in {} |-> ""]

\* RESPONSE_TEMPLATES[language] || RESPONSE_TEMPLATES.en
templatesFor(lang) ==
    IF lang \in DOMAIN RESPONSE_TEMPLATES THEN RESPONSE_TEMPLATES[lang]
    ELSE IF lang \in ObjectPrototypeKeys THEN NoTemplates
    ELSE RESPONSE_TEMPLATES.en

\* slice0 that keeps the whole array.
slice0_whole(arr, n) == arr

\* Array.prototype.slice(0, n)
slice0(arr, n) == SubSeq(arr, 1, IF Len(arr) < n THEN Len(arr) ELSE n)

\* Array.prototype.join
RECURSIVE join(_, _)
join(arr, sep) ==
    IF Len(arr) = 0 THEN ""
    ELSE IF Len(arr) = 1 THEN arr[1]
    ELSE arr[1] \o sep \o join(Tail(arr), sep)

\* The bundle returned when the classification is a crisis.
crisisResponse(templates) ==
    IF "CRISIS" \notin DOMAIN templates
    THEN TypeError
    ELSE LET template == templates.CRISIS
         IN  [threw |-> FALSE,
              message |-> template.immediate_safety \o " "
                          \o template.crisis_resources \o " "
                          \o template.support_available,
              quickReplies |-> <<"Show crisis resources",
                                 "Connect with counsellor", "Find helplines">>,
              showCrisisBanner |-> TRUE,
              nextSteps |-> template.next_steps]

\* genericResponse with the quick replies of a templated response.
genericResponse_templateReplies ==
    [threw |-> FALSE,
     message |-> "I'm here to listen and support you. Can you tell me more about what's on your mind?",
     quickReplies |-> <<"Tell me more", "Take screening", "Book session",
                        "Browse resources">>,
     showCrisisBanner |-> FALSE]

\* The bundle returned when the category has no template.
genericResponse ==
    [threw |-> FALSE,
     message |-> "I'm here to listen and support you. Can you tell me more about what's on your mind?",
     quickReplies |-> <<"Take screening test", "Book counselling",
                        "Browse resources">>,
     showCrisisBanner |-> FALSE]

\* The bundle built from the template of the category.
templateResponse(template, category, severity) ==
    LET strategies == slice0(template.strategies, 2)
    IN  [threw |-> FALSE,
         message |-> template.validation \o " " \o join(strategies, " ")
                     \o " " \o template.psychoeducation,
         quickReplies |-> <<"Tell me more", "Take screening", "Book session",
                            "Browse resources">>,
         showCrisisBanner |-> FALSE,
         nextSteps |-> template.next_steps,
         category |-> category,
         severity |-> severity]

\* buildResponse answering a high severity with the crisis bundle too.
buildResponse_crisisOnHigh(c, lang) ==
    LET templates == templatesFor(lang)
    IN  IF c.crisis \/ c.severity = "high"
        THEN crisisResponse(templates)
        ELSE IF c.category \notin DOMAIN templates
             THEN genericResponse
             ELSE templateResponse(templates[c.category], c.category,
                                   c.severity)

buildResponse(c, lang) ==
    LET templates == templatesFor(lang)
    IN  IF c.crisis
        THEN crisisResponse(templates)
        ELSE IF c.category \notin DOMAIN templates
             THEN genericResponse
             ELSE templateResponse(templates[c.category], c.category,
                                   c.severity)

(***************************************************************************)
(* Chat requests: classify, then buildResponse                             *)
(***************************************************************************)

\* Phrases a message is put together from.
Phrases ==
    {"hello there",
     "I want to KILL MYSELF",
     "new jumper",
     "I have a test tomorrow and can't focus",
     "Study Pressure",
     "so lonely",
     "feeling hopeless",
     "tired all the time",
     "Anxious",
     "stressed, burnout, exhausted, overwhelmed",
     "pressure, too much work, can't cope, workload"}

\* The most phrases in one message.
MaxPhrases == 2

RECURSIVE Messages(_)
Messages(n) ==
    IF n = 0 THEN {""}
    ELSE LET shorter == Messages(n - 1)
         IN  shorter \cup {IF m = "" THEN p ELSE m \o " " \o p :
                              m \in shorter, p \in Phrases}

Texts == Messages(MaxPhrases)

\* One message for each path through classify: a crisis, no keyword, and a
\* keyword density that is low, moderate and high.
PathTexts ==
    {"I want to KILL MYSELF",
     "hello there",
     "Anxious",
     "stressed, burnout, exhausted, overwhelmed",
     "stressed, burnout, exhausted, overwhelmed pressure, too much work, can't cope, workload"}

\* Date.now() during the call, in hours.
Now == 100 * HOURS_PER_DAY

ChatMessages ==
    {[sender |-> "USER", text |-> "I feel sad", createdAt |-> Now - 2],
     [sender |-> "BOT", text |-> "I'm here to listen", createdAt |-> Now - 1]}

\* The most previous messages passed to classify.
MaxHistory == 1

\* The most screening records passed to classify.
MaxScreenings == 2

SeqsUpTo(S, n) == UNION {[1..k -> S] : k \in 0..n}

Histories == SeqsUpTo(ChatMessages, MaxHistory)

SeverityBands == {"minimal", "mild", "moderate", "moderate-severe", "severe"}

\* A screening record created `days` days before Now.
Screening(days, band) ==
    [createdAt |-> Now - days * HOURS_PER_DAY, severityBand |-> band]

\* Screening records 10, 30 and 90 days old.
ScreeningRecords == {Screening(d, b) : d \in {10, 30, 90}, b \in SeverityBands}

ScreeningLists == SeqsUpTo(ScreeningRecords, MaxScreenings)

\* A screening record created `hours` hours before Now.
ScreeningAged(hours, band) == [createdAt |-> Now - hours, severityBand |-> band]

\* Ages around the end of the window: an hour less than 60 days, 60 days
\* exactly, an hour more.
WindowEdgeAges ==
    {WINDOW_DAYS * HOURS_PER_DAY - 1,
     WINDOW_DAYS * HOURS_PER_DAY,
     WINDOW_DAYS * HOURS_PER_DAY + 1}

\* One screening at the end of the window.
WindowEdgeLists ==
    {<<ScreeningAged(h, b)>> : h \in WindowEdgeAges, b \in SeverityBands}

\* No screening, a recent severe one, an old severe one.
ContextLists == {<<>>, <<Screening(10, "severe")>>, <<Screening(90, "severe")>>}

Languages == {"en", "hi", "fr", "constructor"}

\* The arguments of classify: every text with a few contexts, and a text for
\* each path with every history, with every list of screenings and with one
\* screening at the end of the window.
InitChat ==
    /\ op = "chat"
    /\ pc = "call"
    /\ \/ /\ text \in Texts
          /\ history = <<>>
          /\ screenings \in ContextLists
       \/ /\ text \in PathTexts
          /\ history \in Histories
          /\ screenings \in ContextLists
       \/ /\ text \in PathTexts
          /\ history = <<>>
          /\ screenings \in ScreeningLists
       \/ /\ text \in PathTexts
          /\ history = <<>>
          /\ screenings \in WindowEdgeLists
    /\ now = Now
    /\ confidence = None
    /\ classification = None
    /\ language = None
    /\ response = None
    /\ answers = None
    /\ result = None
    /\ OthersIdle

\* const classification = classify(text, messageHistory, recentScreenings)
Classify ==
    /\ op = "chat"
    /\ pc = "call"
    /\ classification' = classify(text, history, screenings, now)
    /\ pc' = "classified"
    /\ UNCHANGED <<op, text, history, screenings, now, confidence, language,
                   response, answers, result>>
    /\ UNCHANGED otherVars

\* const response = buildResponse(classification, language); not reached
\* when classify has thrown.
BuildResponse ==
    /\ op = "chat"
    /\ pc = "classified"
    /\ "threw" \notin DOMAIN classification
    /\ \E lang \in Languages :
          /\ language' = lang
          /\ response' = buildResponse(classification, lang)
    /\ pc' = "done"
    /\ UNCHANGED <<op, text, history, screenings, now, confidence,
                   classification, answers, result>>
    /\ UNCHANGED otherVars

NextChat == Classify \/ BuildResponse

SpecChat == InitChat /\ [][NextChat]_vars

\* Keywords of the SLEEP, DEPRESSION, SOCIAL_ISOLATION and ANXIETY lists, none
\* of them a part of another keyword.
KeywordPool ==
    <<"insomnia", "nightmares", "sad", "hopeless", "numb", "shy", "dread">>

\* The keywords of the pool at the positions chosen, separated by commas.
KeywordText(chosen) ==
    join(SelectSeq(KeywordPool,
                   LAMBDA k : \E i \in chosen : KeywordPool[i] = k), ", ")

\* The messages made of keywords of the pool.
KeywordTexts == {KeywordText(chosen) : chosen \in SUBSET DOMAIN KeywordPool}

\* The arguments of classify for a message made of keywords, without history
\* and screenings.
InitKeywords ==
    /\ op = "chat"
    /\ pc = "call"
    /\ text \in KeywordTexts
    /\ history = <<>>
    /\ screenings = <<>>
    /\ now = Now
    /\ confidence = None
    /\ classification = None
    /\ language = None
    /\ response = None
    /\ answers = None
    /\ result = None
    /\ OthersIdle

SpecKeywords == InitKeywords /\ [][NextChat]_vars

\* Screening records with a property missing beside two whole ones: one
\* without createdAt, one without severityBand created 10 days before Now,
\* and a severe and a minimal one created 30 days before Now.
MalformedRecords ==
    {[severityBand |-> "severe"],
     [createdAt |-> Now - 10 * HOURS_PER_DAY]}

MalformedLists ==
    SeqsUpTo(MalformedRecords \cup {Screening(30, "severe"), Screening(30, "minimal")},
             MaxScreenings)

\* The arguments of classify when the screenings may lack a property.
InitMalformed ==
    /\ op = "chat"
    /\ pc = "call"
    /\ text \in PathTexts
    /\ history = <<>>
    /\ screenings \in MalformedLists
    /\ now = Now
    /\ confidence = None
    /\ classification = None
    /\ language = None
    /\ response = None
    /\ answers = None
    /\ result = None
    /\ OthersIdle

SpecMalformed == InitMalformed /\ [][NextChat]_vars

(***************************************************************************)
(* The severity of a keyword density, for every density a trigger list of  *)
(* up to MaxKeywords keywords can give                                     *)
(***************************************************************************)

\* The longest trigger list considered.
MaxKeywords == 20

Densities ==
    {[num |-> m, den |-> n] : m \in 0..MaxKeywords, n \in 1..MaxKeywords}

InitDensity ==
    /\ op = "densitySeverity"
    /\ pc = "call"
    /\ confidence \in {d \in Densities : 0 < d.num /\ d.num <= d.den}
    /\ text = None
    /\ history = None
    /\ screenings = None
    /\ now = None
    /\ classification = None
    /\ language = None
    /\ response = None
    /\ answers = None
    /\ result = None
    /\ OthersIdle

\* let severity = LOW; if (confidence > 0.3) ...; if (confidence > 0.6) ...
DensitySeverity ==
    /\ op = "densitySeverity"
    /\ pc = "call"
    /\ result' = densitySeverity(confidence)
    /\ pc' = "done"
    /\ UNCHANGED <<op, text, history, screenings, now, confidence,
                   classification, language, response, answers>>
    /\ UNCHANGED otherVars

InitSeverity == InitChat \/ InitDensity

NextSeverity == NextChat \/ DensitySeverity

SpecSeverity == InitSeverity /\ [][NextSeverity]_vars

(***************************************************************************)
(* Screening scorer                                                        *)
(*                                                                         *)
(* A JavaScript value submitted as an answer is a record: a number with    *)
(* its integer part v (frac says that one half is added to it), a string   *)
(* holding the digits of v, or null.  An array is a sequence.               *)
(***************************************************************************)

Num(n) == [t |-> "number", v |-> n, frac |-> FALSE]
Half(n) == [t |-> "number", v |-> n, frac |-> TRUE]
Str(n) == [t |-> "string", v |-> n, frac |-> FALSE]
Null == [t |-> "null", v |-> 0, frac |-> FALSE]

\* A value that is not an array: the object {"0": null}.
NotAnArray == (0 :> Null)

\* Array.isArray: the keys of an array are its indexes 1..length.
isArray(x) == DOMAIN x = 1..Cardinality(DOMAIN x)

\* Number.isInteger: no conversion is made, a string is not an integer.
isInteger(a) == a.t = "number" /\ ~a.frac

\* a >= n and a <= n for an integer n; a string or null is converted to a
\* number first.
AtLeast(a, n) == a.v >= n
AtMost(a, n) == IF a.frac THEN a.v < n ELSE a.v <= n

\* validAnswers without Number.isInteger.
validAnswers_rangeOnly(arr) ==
    \A i \in DOMAIN arr : AtLeast(arr[i], 0) /\ AtMost(arr[i], 3)

\* answers.every(answer => Number.isInteger(answer) && answer >= 0 && answer <= 3)
validAnswers(arr) ==
    \A i \in DOMAIN arr :
        isInteger(arr[i]) /\ AtLeast(arr[i], 0) /\ AtMost(arr[i], 3)

\* totalScore with the reduction started at the second answer.
RECURSIVE totalScore_skipsFirst(_)
totalScore_skipsFirst(arr) ==
    IF Len(arr) <= 1 THEN 0
    ELSE totalScore_skipsFirst(SubSeq(arr, 1, Len(arr) - 1)) + arr[Len(arr)].v

\* answers.reduce((sum, answer) => sum + answer, 0), for integer answers.
RECURSIVE totalScore(_)
totalScore(arr) ==
    IF Len(arr) = 0 THEN 0
    ELSE totalScore(SubSeq(arr, 1, Len(arr) - 1)) + arr[Len(arr)].v

\* new Error(message), thrown.
Thrown(message) == [threw |-> TRUE, error |-> "Error", message |-> message]

getPHQ9Interpretation(severityBand) ==
    LET interpretations ==
          [minimal |->
             [en |-> "Minimal depression symptoms. Your responses suggest you may have few or no symptoms of depression.",
              hi |-> "[hi] Minimal depression symptoms."],
           mild |->
             [en |-> "Mild depression symptoms. You may be experiencing some symptoms that could benefit from attention and self-care.",
              hi |-> "[hi] Mild depression symptoms."],
           moderate |->
             [en |-> "Moderate depression symptoms. Consider speaking with a mental health professional about your symptoms.",
              hi |-> "[hi] Moderate depression symptoms."],
           severe |->
             [en |-> "Severe depression symptoms. Please consider seeking immediate professional help. These symptoms can significantly impact your daily life.",
              hi |-> "[hi] Severe depression symptoms."]]
          @@ ("moderate-severe" :>
             [en |-> "Moderate to severe depression symptoms. It's recommended to seek professional help to address these symptoms.",
              hi |-> "[hi] Moderate to severe depression symptoms."])
    IN  IF severityBand \in DOMAIN interpretations
        THEN interpretations[severityBand]
        ELSE interpretations.minimal

getGAD7Interpretation(severityBand) ==
    LET interpretations ==
          [minimal |->
             [en |-> "Minimal anxiety symptoms. Your responses suggest you may have few or no symptoms of anxiety.",
              hi |-> "[hi] Minimal anxiety symptoms."],
           mild |->
             [en |-> "Mild anxiety symptoms. You may be experiencing some anxiety that could benefit from relaxation techniques and self-care.",
              hi |-> "[hi] Mild anxiety symptoms."],
           moderate |->
             [en |-> "Moderate anxiety symptoms. Consider learning anxiety management techniques or speaking with a counsellor.",
              hi |-> "[hi] Moderate anxiety symptoms."],
           severe |->
             [en |-> "Severe anxiety symptoms. It's recommended to seek professional help. These symptoms may be significantly impacting your daily functioning.",
              hi |-> "[hi] Severe anxiety symptoms."]]
    IN  IF severityBand \in DOMAIN interpretations
        THEN interpretations[severityBand]
        ELSE interpretations.minimal

\* phq9Band with < in place of <=.
phq9Band_exclusive(total) ==
    IF total < 4 THEN "minimal"
    ELSE IF total < 9 THEN "mild"
    ELSE IF total < 14 THEN "moderate"
    ELSE IF total < 19 THEN "moderate-severe"
    ELSE "severe"

\* The if / else-if chain of scorePHQ9.
phq9Band(total) ==
    IF total <= 4 THEN "minimal"
    ELSE IF total <= 9 THEN "mild"
    ELSE IF total <= 14 THEN "moderate"
    ELSE IF total <= 19 THEN "moderate-severe"
    ELSE "severe"

\* gad7Band with the five bands of PHQ-9.
gad7Band_fiveBands(total) ==
    IF total <= 4 THEN "minimal"
    ELSE IF total <= 9 THEN "mild"
    ELSE IF total <= 14 THEN "moderate"
    ELSE IF total <= 19 THEN "moderate-severe"
    ELSE "severe"

\* The if / else-if chain of scoreGAD7.
gad7Band(total) ==
    IF total <= 4 THEN "minimal"
    ELSE IF total <= 9 THEN "mild"
    ELSE IF total <= 14 THEN "moderate"
    ELSE "severe"

\* scorePHQ9 without the test of the length.
scorePHQ9_anyLength(arr) ==
    IF ~isArray(arr)
    THEN Thrown("PHQ-9 requires exactly 9 answers")
    ELSE IF ~validAnswers(arr)
    THEN Thrown("PHQ-9 answers must be integers between 0 and 3")
    ELSE LET total == totalScore(arr)
             severityBand == phq9Band(total)
         IN  [threw |-> FALSE,
              score |-> total,
              maxScore |-> 27,
              severityBand |-> severityBand,
              interpretation |-> getPHQ9Interpretation(severityBand)]

scorePHQ9(arr) ==
    IF ~isArray(arr) \/ Len(arr) # 9
    THEN Thrown("PHQ-9 requires exactly 9 answers")
    ELSE IF ~validAnswers(arr)
    THEN Thrown("PHQ-9 answers must be integers between 0 and 3")
    ELSE LET total == totalScore(arr)
             severityBand == phq9Band(total)
         IN  [threw |-> FALSE,
              score |-> total,
              maxScore |-> 27,
              severityBand |-> severityBand,
              interpretation |-> getPHQ9Interpretation(severityBand)]

scoreGAD7(arr) ==
    IF ~isArray(arr) \/ Len(arr) # 7
    THEN Thrown("GAD-7 requires exactly 7 answers")
    ELSE IF ~validAnswers(arr)
    THEN Thrown("GAD-7 answers must be integers between 0 and 3")
    ELSE LET total == totalScore(arr)
             severityBand == gad7Band(total)
         IN  [threw |-> FALSE,
              score |-> total,
              maxScore |-> 21,
              severityBand |-> severityBand,
              interpretation |-> getGAD7Interpretation(severityBand)]

(***************************************************************************)
(* Screening submissions                                                   *)
(***************************************************************************)

\* The number of questions of each instrument.
Questions == [scorePHQ9 |-> 9, scoreGAD7 |-> 7]

\* The answers of the scale: "not at all" .. "nearly every day".
ScaleAnswers == {Num(n) : n \in 0..3}

\* Values that are no answer of the scale.
BadAnswers == {Num(-1), Num(4), Half(1), Str(2), Null}

\* The longest array of answers submitted.
MaxAnswers == 10

\* Every array of scale answers of the instrument's length.
ValidVectors(n) == [1..n -> ScaleAnswers]

\* Arrays of every length up to MaxAnswers that repeat one value.
UniformVectors ==
    {[i \in 1..k |-> a] : k \in 0..MaxAnswers, a \in ScaleAnswers \cup BadAnswers}

\* Arrays of the instrument's length with one value that is no answer.
OneBadVectors(n) ==
    {[base EXCEPT ![i] = bad] :
        base \in {[j \in 1..n |-> a] : a \in ScaleAnswers},
        i \in 1..n, bad \in BadAnswers}

InitScore ==
    /\ op \in {"scorePHQ9", "scoreGAD7"}
    /\ pc = "call"
    /\ answers \in ValidVectors(Questions[op]) \cup UniformVectors
                   \cup OneBadVectors(Questions[op]) \cup {NotAnArray}
    /\ text = None
    /\ history = None
    /\ screenings = None
    /\ now = None
    /\ confidence = None
    /\ classification = None
    /\ language = None
    /\ response = None
    /\ result = None
    /\ OthersIdle

ScorePHQ9 ==
    /\ op = "scorePHQ9"
    /\ pc = "call"
    /\ result' = scorePHQ9(answers)
    /\ pc' = "done"
    /\ UNCHANGED <<op, text, history, screenings, now, confidence,
                   classification, language, response, answers>>
    /\ UNCHANGED otherVars

ScoreGAD7 ==
    /\ op = "scoreGAD7"
    /\ pc = "call"
    /\ result' = scoreGAD7(answers)
    /\ pc' = "done"
    /\ UNCHANGED <<op, text, history, screenings, now, confidence,
                   classification, language, response, answers>>
    /\ UNCHANGED otherVars

NextScore == ScorePHQ9 \/ ScoreGAD7

SpecScore == InitScore /\ [][NextScore]_vars

(***************************************************************************)
(* getRecommendations                                                      *)
(*                                                                         *)
(* A JavaScript value is a record tagged by its kind.  Reading a property  *)
(* finds the object's own property first and an inherited one after; the   *)
(* own properties of functions (length, name, prototype) are not modelled. *)
(***************************************************************************)

Obj(fields) == [kind |-> "object", fields |-> fields]
Arr(items) == [kind |-> "array", items |-> items]
Undefined == [kind |-> "undefined"]
NullValue == [kind |-> "null"]
\* A function, such as Object or Object.prototype.toString.
Fn == [kind |-> "function"]
\* Object.prototype
ObjectPrototype == [kind |-> "Object.prototype"]

\* The property found on the prototype chain of a value that is neither
\* undefined nor null.
inherited(v, key) ==
    IF key = "__proto__"
    THEN IF v.kind = "Object.prototype" THEN NullValue
         ELSE IF v.kind = "function" THEN Fn
         ELSE ObjectPrototype
    ELSE IF key \in ObjectPrototypeKeys THEN Fn
    ELSE Undefined

\* v[key] for a value that is neither undefined nor null.
get(v, key) ==
    IF v.kind = "object" /\ key \in DOMAIN v.fields
    THEN v.fields[key]
    ELSE inherited(v, key)

truthy(v) == v.kind \notin {"undefined", "null"}

\* a || b
or(a, b) == IF truthy(a) THEN a ELSE b

\* The Hindi sentences are written here by their English key, in ASCII.
recommendations ==
    Obj([PHQ9 |->
           Obj([minimal |->
                  Obj([en |-> Arr(<<"Continue maintaining good mental health practices",
                                    "Stay connected with friends and family",
                                    "Engage in regular physical activity",
                                    "Practice stress management techniques">>),
                       hi |-> Arr(<<"[hi] Continue maintaining good mental health practices",
                                    "[hi] Stay connected with friends and family",
                                    "[hi] Engage in regular physical activity">>)]),
                mild |->
                  Obj([en |-> Arr(<<"Monitor your mood and symptoms",
                                    "Practice self-care and relaxation techniques",
                                    "Maintain social connections",
                                    "Consider lifestyle changes like regular exercise">>)]),
                moderate |->
                  Obj([en |-> Arr(<<"Consider speaking with a mental health professional",
                                    "Explore counselling or therapy options",
                                    "Practice daily mood tracking",
                                    "Build a support network">>)]),
                severe |->
                  Obj([en |-> Arr(<<"Seek immediate professional help",
                                    "Contact a mental health crisis line if needed",
                                    "Don't hesitate to reach out for support",
                                    "Consider speaking with your healthcare provider about treatment options">>)])]
               @@ ("moderate-severe" :>
                  Obj([en |-> Arr(<<"Seek professional mental health support",
                                    "Consider therapy or counselling",
                                    "Reach out to trusted friends or family",
                                    "Explore treatment options with a healthcare provider">>)]))),
         GAD7 |->
           Obj([minimal |->
                  Obj([en |-> Arr(<<"Continue current stress management practices",
                                    "Maintain healthy lifestyle habits",
                                    "Stay socially connected",
                                    "Practice mindfulness or relaxation when stressed">>)]),
                mild |->
                  Obj([en |-> Arr(<<"Learn and practice anxiety management techniques",
                                    "Try deep breathing and relaxation exercises",
                                    "Monitor anxiety triggers",
                                    "Maintain regular sleep and exercise routines">>)]),
                moderate |->
                  Obj([en |-> Arr(<<"Consider learning cognitive-behavioral techniques",
                                    "Speak with a counsellor about anxiety management",
                                    "Practice regular relaxation exercises",
                                    "Consider joining a support group">>)]),
                severe |->
                  Obj([en |-> Arr(<<"Seek professional help for anxiety management",
                                    "Consider therapy or counselling",
                                    "Learn about anxiety disorders and treatment options",
                                    "Build a strong support network">>)])])])

\* getRecommendations with the fallback of the band dropped.
getRecommendations_noBandFallback(type, band, lang) ==
    LET typeRecommendations ==
            or(get(recommendations, type), get(recommendations, "PHQ9"))
        severityRecommendations == get(typeRecommendations, band)
    IN  IF ~truthy(severityRecommendations)
        THEN TypeError
        ELSE [threw |-> FALSE,
              value |-> or(get(severityRecommendations, lang),
                           or(get(severityRecommendations, "en"), Arr(<<>>)))]

getRecommendations(type, band, lang) ==
    LET typeRecommendations ==
            or(get(recommendations, type), get(recommendations, "PHQ9"))
        severityRecommendations ==
            or(get(typeRecommendations, band),
               get(typeRecommendations, "minimal"))
    IN  IF ~truthy(severityRecommendations)
        THEN TypeError
        ELSE [threw |-> FALSE,
              value |-> or(get(severityRecommendations, lang),
                           or(get(severityRecommendations, "en"), Arr(<<>>)))]

\* The instruments, bands and languages asked for: the known ones, an
\* unknown one, and names every object inherits.
RecommendationTypes == {"PHQ9", "GAD7", "BDI", "constructor", "__proto__"}

RecommendationBands == SeverityBands \cup {"unknown", "constructor", "__proto__"}

RecommendationLanguages == Languages \cup {"__proto__"}

InitRecommendations ==
    /\ op = "getRecommendations"
    /\ pc = "call"
    /\ reqType \in RecommendationTypes
    /\ reqBand \in RecommendationBands
    /\ language \in RecommendationLanguages
    /\ text = None
    /\ history = None
    /\ screenings = None
    /\ now = None
    /\ confidence = None
    /\ classification = None
    /\ response = None
    /\ answers = None
    /\ result = None
    /\ RoutesIdle

\* const recommendations = getRecommendations(type, severityBand, language)
GetRecommendations ==
    /\ op = "getRecommendations"
    /\ pc = "call"
    /\ result' = getRecommendations(reqType, reqBand, language)
    /\ pc' = "done"
    /\ UNCHANGED <<op, text, history, screenings, now, confidence,
                   classification, language, response, answers, reqType,
                   reqBand>>
    /\ UNCHANGED routeVars

SpecRecommendations == InitRecommendations /\ [][GetRecommendations]_vars

(***************************************************************************)
(* POST /chat/message                                                      *)
(*                                                                         *)
(* One request, a step for each database operation the handler awaits.     *)
(* The rows of a table are a set; the screenings of one caller have        *)
(* distinct creation times.                                                 *)
(***************************************************************************)

\* findMany({orderBy: {createdAt: 'desc'}}) on rows of distinct createdAt.
RECURSIVE orderByCreatedAtDesc(_)
orderByCreatedAtDesc(rows) ==
    IF rows = {} THEN <<>>
    ELSE LET newest == CHOOSE r \in rows :
                          \A q \in rows : q.createdAt <= r.createdAt
         IN  <<newest>> \o orderByCreatedAtDesc(rows \ {newest})

\* getRecentScreenings with a cutoff of 30 days.
getRecentScreenings_thirtyDays(rows, t) ==
    orderByCreatedAtDesc({r \in rows : r.createdAt >= t - 30 * HOURS_PER_DAY})

\* The screenings of the caller created at or after sixtyDaysAgo, newest
\* first.
getRecentScreenings(rows, t) ==
    orderByCreatedAtDesc(
        {r \in rows : r.createdAt >= t - WINDOW_DAYS * HOURS_PER_DAY})

\* The messages loaded with the session: the newest first, at most `n`.
RECURSIVE takeNewest(_, _)
takeNewest(messages, n) ==
    IF n = 0 \/ Len(messages) = 0 THEN <<>>
    ELSE <<messages[Len(messages)]>>
             \o takeNewest(SubSeq(messages, 1, Len(messages) - 1), n - 1)

\* session.messages: take 10, newest first.
HISTORY_TAKE == 10

\* The most screenings stored for the caller.
MaxStored == 2

\* The most hours that pass between the provider's query and classify.
MaxDelay == 1

\* The stored screenings a caller may have: recent ones, one created exactly
\* 60 days before the request, older ones.
StoredRecords ==
    {Screening(10, "severe"), Screening(30, "minimal"), Screening(45, "moderate"),
     Screening(60, "severe"), Screening(90, "severe")}

StoredSets == {rows \in SUBSET StoredRecords : Cardinality(rows) <= MaxStored}

\* The chat session as the request finds it: of the caller or not.
Sessions ==
    {[owned |-> o, lastCategory |-> "null", lastSeverity |-> "null"] :
        o \in BOOLEAN}

\* req.user?.preferredLanguage || 'en', validated to be 'en' or 'hi'.
PreferredLanguages == {"en", "hi"}

InitMessage ==
    /\ op = "POST /chat/message"
    /\ pc = "start"
    /\ text \in PathTexts
    /\ language \in PreferredLanguages
    /\ chatMessages \in Histories
    /\ session \in Sessions
    /\ storedScreenings \in StoredSets
    /\ now = Now
    /\ history = None
    /\ screenings = None
    /\ classification = None
    /\ response = None
    /\ reply = None
    /\ confidence = None
    /\ answers = None
    /\ result = None
    /\ reqType = None
    /\ reqBand = None
    /\ bookings = None
    /\ requests = None

\* prisma.chatSession.findFirst: 404 when the session is not the caller's.
FindSession ==
    /\ op = "POST /chat/message"
    /\ pc = "start"
    /\ IF session.owned
       THEN /\ history' = takeNewest(chatMessages, HISTORY_TAKE)
            /\ pc' = "found"
            /\ reply' = reply
       ELSE /\ reply' = [status |-> 404]
            /\ pc' = "done"
            /\ history' = history
    /\ UNCHANGED <<op, text, screenings, now, confidence, classification,
                   language, response, answers, result, reqType, reqBand,
                   chatMessages, session, storedScreenings, bookings, requests>>

\* prisma.chatMessage.create of the user's message.
SaveUserMessage ==
    /\ op = "POST /chat/message"
    /\ pc = "found"
    /\ chatMessages' = Append(chatMessages,
                              [sender |-> "USER", text |-> text,
                               createdAt |-> now])
    /\ pc' = "saved"
    /\ UNCHANGED <<op, text, history, screenings, now, confidence,
                   classification, language, response, answers, result,
                   reqType, reqBand, session, storedScreenings, reply,
                   bookings, requests>>

\* await getRecentScreenings(userId, anonymousId); time passes before the
\* handler goes on.
GetRecentScreenings ==
    /\ op = "POST /chat/message"
    /\ pc = "saved"
    /\ screenings' = getRecentScreenings(storedScreenings, now)
    /\ \E delay \in 0..MaxDelay : now' = now + delay
    /\ pc' = "context"
    /\ UNCHANGED <<op, text, history, confidence, classification, language,
                   response, answers, result, reqType, reqBand, chatMessages,
                   session, storedScreenings, reply, bookings, requests>>

\* classify, buildResponse and prisma.chatMessage.create of the bot's
\* message; an error thrown on the way goes to the error handler, which
\* answers 500.
AnswerMessage ==
    /\ op = "POST /chat/message"
    /\ pc = "context"
    /\ classification' = classify(text, history, screenings, now)
    /\ response' = buildResponse(classification', language)
    /\ IF response'.threw
       THEN /\ reply' = [status |-> 500]
            /\ pc' = "done"
            /\ chatMessages' = chatMessages
       ELSE /\ chatMessages' = Append(chatMessages,
                                      [sender |-> "BOT",
                                       text |-> response'.message,
                                       category |-> classification'.category,
                                       severity |-> classification'.severity,
                                       createdAt |-> now])
            /\ pc' = "replied"
            /\ reply' = reply
    /\ UNCHANGED <<op, text, history, screenings, now, confidence, language,
                   answers, result, reqType, reqBand, session,
                   storedScreenings, bookings, requests>>

\* prisma.chatSession.update
UpdateSession ==
    /\ op = "POST /chat/message"
    /\ pc = "replied"
    /\ session' = [session EXCEPT !.lastCategory = classification.category,
                                  !.lastSeverity = classification.severity]
    /\ pc' = "updated"
    /\ UNCHANGED <<op, text, history, screenings, now, confidence,
                   classification, language, response, answers, result,
                   reqType, reqBand, chatMessages, storedScreenings, reply,
                   bookings, requests>>

\* res.json({success: true, userMessage, botResponse})
RespondMessage ==
    /\ op = "POST /chat/message"
    /\ pc = "updated"
    /\ reply' = [status |-> 200,
                 success |-> TRUE,
                 message |-> response.message,
                 quickReplies |-> response.quickReplies,
                 showCrisisBanner |-> response.showCrisisBanner,
                 category |-> classification.category,
                 severity |-> classification.severity]
    /\ pc' = "done"
    /\ UNCHANGED <<op, text, history, screenings, now, confidence,
                   classification, language, response, answers, result,
                   reqType, reqBand, chatMessages, session, storedScreenings,
                   bookings, requests>>

NextMessage ==
    \/ FindSession
    \/ SaveUserMessage
    \/ GetRecentScreenings
    \/ AnswerMessage
    \/ UpdateSession
    \/ RespondMessage

SpecMessage == InitMessage /\ [][NextMessage]_vars

(***************************************************************************)
(* POST /screenings/phq9, POST /screenings/gad7, GET /screenings/:id       *)
(*                                                                         *)
(* Requests are handled one after another; the screening table is the      *)
(* sequence of its rows in the order they were created.                    *)
(***************************************************************************)

\* Joi.number().integer().min(0).max(3) on one item: a string of digits is
\* converted to the number, null and a fraction are errors.
validItem(a) == a.t \in {"number", "string"} /\ ~a.frac /\ a.v >= 0 /\ a.v <= 3

\* validate(schemas.screening): the body is rejected, or passed on with its
\* items converted to numbers.
validate(body) ==
    IF ~isArray(body) \/ \E i \in DOMAIN body : ~validItem(body[i])
    THEN [error |-> TRUE]
    ELSE [error |-> FALSE, value |-> [i \in DOMAIN body |-> Num(body[i].v)]]

\* The scorer of the route for the type.
scoringFunction(type, arr) ==
    IF type = "PHQ9" THEN scorePHQ9(arr) ELSE scoreGAD7(arr)

\* The test of the catch block on the message of the error.
isScoringError(error) ==
    \/ includes(error.message, "requires exactly")
    \/ includes(error.message, "must be integers")

\* The most requests made.
MaxRequests == 2

\* Arrays of some lengths up to MaxAnswers that repeat one value.
RepeatVectors ==
    {[i \in 1..k |-> a] : k \in {0, 7, 8, 9, MaxAnswers},
                          a \in ScaleAnswers \cup BadAnswers}

\* Arrays of the instrument's length whose first k answers are 3.
StepVectors ==
    {[i \in 1..n |-> IF i <= k THEN Num(3) ELSE Num(0)] :
        n \in {7, 9}, k \in {2, 5}}

\* Arrays of the instrument's length whose first value is no answer.
FirstBadVectors ==
    {[[j \in 1..n |-> Num(1)] EXCEPT ![1] = bad] :
        n \in {7, 9}, bad \in BadAnswers}

\* The bodies submitted to the routes.
SubmittedBodies ==
    RepeatVectors \cup StepVectors \cup FirstBadVectors \cup {NotAnArray}

\* The caller: with a user id or an anonymousId cookie or neither, and the
\* preferred language.
Callers ==
    {[identified |-> i, preferredLanguage |-> lang] :
        i \in BOOLEAN, lang \in PreferredLanguages}

InitScreenings ==
    /\ op = "screenings"
    /\ pc = "idle"
    /\ storedScreenings = <<>>
    /\ session \in Callers
    /\ now = Now
    /\ answers = None
    /\ result = None
    /\ reply = None
    /\ language = None
    /\ text = None
    /\ history = None
    /\ screenings = None
    /\ confidence = None
    /\ classification = None
    /\ response = None
    /\ reqType = None
    /\ reqBand = None
    /\ chatMessages = None
    /\ bookings = None
    /\ requests = None

\* The handler of POST /phq9 and POST /gad7 for one request.
Submit(type, body) ==
    /\ now < Now + MaxRequests
    /\ pc' = type
    /\ answers' = body
    /\ now' = now + 1
    /\ LET validated == validate(body)
       IN  IF validated.error \/ ~session.identified
           THEN /\ result' = None
                /\ reply' = [status |-> 400]
                /\ storedScreenings' = storedScreenings
           ELSE LET scoringResult == scoringFunction(type, validated.value)
                IN  /\ result' = scoringResult
                    /\ IF scoringResult.threw
                       THEN /\ reply' = [status |-> IF isScoringError(scoringResult)
                                                    THEN 400 ELSE 500]
                            /\ storedScreenings' = storedScreenings
                       ELSE /\ storedScreenings' =
                                   Append(storedScreenings,
                                          [type |-> type,
                                           answers |-> validated.value,
                                           score |-> scoringResult.score,
                                           severityBand |-> scoringResult.severityBand,
                                           createdAt |-> now])
                            /\ reply' =
                                   IF getRecommendations(type,
                                          scoringResult.severityBand,
                                          session.preferredLanguage).threw
                                   THEN [status |-> 500]
                                   ELSE [status |-> 200,
                                         score |-> scoringResult.score,
                                         maxScore |-> scoringResult.maxScore,
                                         severityBand |-> scoringResult.severityBand]
    /\ UNCHANGED <<op, text, history, screenings, confidence, classification,
                   language, response, reqType, reqBand, chatMessages, session,
                   bookings, requests>>

SubmitPHQ9 ==
    /\ op = "screenings"
    /\ \E body \in SubmittedBodies : Submit("PHQ9", body)

SubmitGAD7 ==
    /\ op = "screenings"
    /\ \E body \in SubmittedBodies : Submit("GAD7", body)

\* The handler of GET /:id: 404 for a screening that is not the caller's,
\* else the stored score and band with the interpretation of a new scoring
\* of the stored answers.
ReadScreening ==
    /\ op = "screenings"
    /\ now < Now + MaxRequests
    /\ now' = now + 1
    /\ pc' = "read"
    /\ answers' = None
    /\ \E id \in 0..Len(storedScreenings) :
           IF id = 0
           THEN /\ result' = None
                /\ reply' = [status |-> 404]
           ELSE LET screening == storedScreenings[id]
                    scoringResult == scoringFunction(screening.type,
                                                     screening.answers)
                IN  /\ result' = scoringResult
                    /\ reply' =
                           IF scoringResult.threw
                              \/ getRecommendations(screening.type,
                                     screening.severityBand,
                                     session.preferredLanguage).threw
                           THEN [status |-> 500]
                           ELSE [status |-> 200,
                                 id |-> id,
                                 score |-> screening.score,
                                 maxScore |-> scoringResult.maxScore,
                                 severityBand |-> screening.severityBand]
    /\ UNCHANGED <<op, text, history, screenings, confidence, classification,
                   language, response, reqType, reqBand, chatMessages, session,
                   storedScreenings, bookings, requests>>

NextScreenings == SubmitPHQ9 \/ SubmitGAD7 \/ ReadScreening

SpecScreenings == InitScreenings /\ [][NextScreenings]_vars

(***************************************************************************)
(* POST /bookings                                                          *)
(*                                                                         *)
(* Concurrent requests, each a step for every database operation its       *)
(* handler awaits; the booking table is the sequence of its rows in the     *)
(* order they were created.  prisma.booking.create always succeeds: the     *)
(* route runs no transaction and the sources declare no unique index.       *)
(***************************************************************************)

\* The most requests in flight at once.
MaxClients == 2

Clients == 1..MaxClients

\* Counsellors: one active, one not.
ActiveCounsellors == {"c1"}
Counsellors == {"c1", "c2"}

\* Time slots: a day after Now and a day before it.
FutureSlot == Now + HOURS_PER_DAY
PastSlot == Now - HOURS_PER_DAY
TimeSlots == {FutureSlot, PastSlot}

\* The statuses the conflict check looks for.
ActiveStatuses == {"REQUESTED", "CONFIRMED"}

\* The booking table before the requests: empty, or one booking of the
\* future slot, confirmed or cancelled.
BookingTables ==
    {<<>>} \cup
    {<<[counsellorId |-> "c1", timeSlot |-> FutureSlot, status |-> s,
        client |-> 0]>> : s \in {"CONFIRMED", "CANCELLED"}}

\* A request as it arrives.
NewRequests ==
    {[pc |-> "start", counsellorId |-> c, timeSlot |-> t, identified |-> i,
      status |-> 0] :
        c \in Counsellors, t \in TimeSlots, i \in BOOLEAN}

InitBookings ==
    /\ op = "POST /bookings"
    /\ pc = "serving"
    /\ bookings \in BookingTables
    /\ requests \in [Clients -> NewRequests]
    /\ now = Now
    /\ text = None
    /\ history = None
    /\ screenings = None
    /\ confidence = None
    /\ classification = None
    /\ language = None
    /\ response = None
    /\ answers = None
    /\ result = None
    /\ reqType = None
    /\ reqBand = None
    /\ chatMessages = None
    /\ session = None
    /\ storedScreenings = None
    /\ reply = None

\* The variables a step of a booking request leaves alone.
bookingFrame ==
    <<op, pc, text, history, screenings, now, confidence, classification,
      language, response, answers, result, reqType, reqBand, chatMessages,
      session, storedScreenings, reply>>

\* The request ends with the status.
Answered(r, status) ==
    requests' = [requests EXCEPT ![r].pc = "done", ![r].status = status]

\* The identification test and prisma.counsellor.findFirst.
FindCounsellor(r) ==
    /\ op = "POST /bookings"
    /\ requests[r].pc = "start"
    /\ IF ~requests[r].identified
       THEN Answered(r, 400)
       ELSE IF requests[r].counsellorId \notin ActiveCounsellors
       THEN Answered(r, 404)
       ELSE requests' = [requests EXCEPT ![r].pc = "counsellor"]
    /\ UNCHANGED bookings
    /\ UNCHANGED bookingFrame

\* prisma.booking.findFirst for the counsellor, the slot and a status of
\* REQUESTED or CONFIRMED.
conflictingBooking(table, counsellorId, timeSlot) ==
    \E i \in DOMAIN table :
        /\ table[i].counsellorId = counsellorId
        /\ table[i].timeSlot = timeSlot
        /\ table[i].status \in ActiveStatuses

\* The test of the time slot and the search for a conflicting booking.
CheckConflict(r) ==
    /\ op = "POST /bookings"
    /\ requests[r].pc = "counsellor"
    /\ IF requests[r].timeSlot <= now
       THEN Answered(r, 400)
       ELSE IF conflictingBooking(bookings, requests[r].counsellorId,
                                  requests[r].timeSlot)
       THEN Answered(r, 409)
       ELSE requests' = [requests EXCEPT ![r].pc = "free"]
    /\ UNCHANGED bookings
    /\ UNCHANGED bookingFrame

\* prisma.booking.create with status REQUESTED.
CreateBooking(r) ==
    /\ op = "POST /bookings"
    /\ requests[r].pc = "free"
    /\ bookings' = Append(bookings,
                          [counsellorId |-> requests[r].counsellorId,
                           timeSlot |-> requests[r].timeSlot,
                           status |-> "REQUESTED",
                           client |-> r])
    /\ requests' = [requests EXCEPT ![r].pc = "created"]
    /\ UNCHANGED bookingFrame

\* The analytics event and res.status(201).json(...).
RespondCreated(r) ==
    /\ op = "POST /bookings"
    /\ requests[r].pc = "created"
    /\ Answered(r, 201)
    /\ UNCHANGED bookings
    /\ UNCHANGED bookingFrame

NextBookings ==
    \E r \in Clients :
        \/ FindCounsellor(r)
        \/ CheckConflict(r)
        \/ CreateBooking(r)
        \/ RespondCreated(r)

SpecBookings == InitBookings /\ [][NextBookings]_vars

(***************************************************************************)
(* Properties of classify                                                  *)
(*                                                                         *)
(* The properties are stated on the arguments of the call, without the     *)
(* operators that model the code: a keyword occurs in a text when some     *)
(* part of the text, each character folded to lower case, is the keyword.  *)
(***************************************************************************)

\* The text with each character folded to lower case.
RECURSIVE Folded(_)
Folded(txt) ==
    IF txt = "" THEN ""
    ELSE LowerChar(SubSeq(txt, 1, 1)) \o Folded(SubSeq(txt, 2, Len(txt)))

\* The keyword is some part of the folded text.
Occurs(keyword, folded) ==
    \E i \in 1..(Len(folded) - Len(keyword) + 1) :
        SubSeq(folded, i, i + Len(keyword) - 1) = keyword

\* The texts of the requests.
RequestTexts == Texts \cup PathTexts

\* For every text of a request and every category, how many keywords of the
\* category's list occur in the text, as a table written out once.
Occurring ==
    [txt \in RequestTexts |->
        LET folded == Folded(txt)
        IN  [category \in DOMAIN CATEGORY_TRIGGERS |->
                Cardinality({i \in DOMAIN CATEGORY_TRIGGERS[category] :
                                Occurs(CATEGORY_TRIGGERS[category][i], folded)})]
            @@ <<>>]
    @@ <<>>

HasCrisisKeyword(txt) == Occurring[txt].CRISIS > 0

\* The non-crisis categories in the order of their declaration.
DeclaredOrder ==
    <<"ANXIETY", "DEPRESSION", "STRESS_BURNOUT", "SLEEP", "ACADEMIC_STRESS",
      "SOCIAL_ISOLATION">>

HasNoKeyword(txt) ==
    \A category \in DOMAIN CATEGORY_TRIGGERS : Occurring[txt][category] = 0

\* The request is a chat message that classify has returned from.
Classified == op = "chat" /\ pc # "call"

CrisisResult ==
    [category |-> "CRISIS", severity |-> "crisis", crisis |-> TRUE,
     confidence |-> [num |-> 1, den |-> 1]]

GeneralResult ==
    [category |-> "GENERAL", severity |-> "low", crisis |-> FALSE,
     confidence |-> [num |-> 0, den |-> 1]]

\* The screenings of the call that are at most 60 days old.
InWindow ==
    {i \in DOMAIN screenings : now - screenings[i].createdAt <= 60 * 24}

\* C1: a text that contains a CRISIS keyword, in any letter case, is
\* classified {CRISIS, crisis, true, 1.0} whatever the history, the
\* screenings and the other keywords of the text.
C1_CrisisShortCircuit ==
    (Classified /\ HasCrisisKeyword(text)) => classification = CrisisResult

\* C1 witness: a crisis keyword in upper case next to a keyword of another
\* category, with a recent severe screening, classified as a crisis.
C1_Witness ==
    /\ Classified
    /\ text = "so lonely I want to KILL MYSELF"
    /\ screenings = <<Screening(10, "severe")>>
    /\ classification.crisis

\* C7: a text with no keyword of any list is classified {GENERAL, low,
\* false, 0.0} whatever the history and the screenings.
C7_NoKeywordIsGeneral ==
    (Classified /\ HasNoKeyword(text)) => classification = GeneralResult

\* C7 witness: no keyword, a severe screening 10 days old, severity low.
C7_Witness ==
    /\ Classified
    /\ text = "hello there"
    /\ \E i \in InWindow : screenings[i].severityBand = "severe"
    /\ classification.category = "GENERAL"
    /\ classification.severity = "low"

\* The ratio of a category: its occurring keywords over its list length.
KeywordRatio(category, txt) ==
    [num |-> Occurring[txt][category],
     den |-> Len(CATEGORY_TRIGGERS[category])]

SameRatio(a, b) == a.num * b.den = b.num * a.den

\* Category number w has the greatest ratio, and a greater one than every
\* category declared before it.
Wins(w, txt) ==
    LET ratio == [j \in DOMAIN DeclaredOrder |->
                    KeywordRatio(DeclaredOrder[j], txt)]
    IN  /\ \A j \in DOMAIN DeclaredOrder :
              ratio[j].num * ratio[w].den <= ratio[w].num * ratio[j].den
        /\ \A j \in 1..(w - 1) :
              ratio[j].num * ratio[w].den < ratio[w].num * ratio[j].den

\* C8: with no crisis keyword and at least one keyword, the category is the
\* one of maximal ratio, the first declared among equals, and the confidence
\* is that ratio.
C8_BestCategory ==
    (Classified /\ ~HasCrisisKeyword(text) /\ ~HasNoKeyword(text)) =>
        \E w \in DOMAIN DeclaredOrder :
            /\ Wins(w, text)
            /\ classification.category = DeclaredOrder[w]
            /\ classification.confidence = KeywordRatio(DeclaredOrder[w], text)
            /\ ~classification.crisis

\* C8 witness: "Study Pressure" has one keyword of STRESS_BURNOUT and one of
\* ACADEMIC_STRESS, both lists of 12: the first declared is returned.
C8_Witness ==
    /\ Classified
    /\ SameRatio(KeywordRatio("STRESS_BURNOUT", text),
                 KeywordRatio("ACADEMIC_STRESS", text))
    /\ KeywordRatio("ACADEMIC_STRESS", text).num > 0
    /\ classification.category = "STRESS_BURNOUT"

\* The severity of a ratio: high above 0.6, else moderate above 0.3, else low.
RatioSeverity(r) ==
    IF 10 * r.num > 6 * r.den THEN "high"
    ELSE IF 10 * r.num > 3 * r.den THEN "moderate"
    ELSE "low"

\* The call matched a non-crisis category.
Matched ==
    Classified /\ ~classification.crisis /\ classification.category # "GENERAL"

\* C9: with no screening in the 60-day window, the severity of a non-crisis,
\* non-GENERAL result is the severity of the winning ratio, with strict
\* thresholds: exactly 0.3 is low and exactly 0.6 is moderate.
C9_DensitySeverity ==
    /\ (Matched /\ InWindow = {}) =>
          classification.severity = RatioSeverity(classification.confidence)
    /\ (op = "densitySeverity" /\ pc = "done") =>
          /\ result = RatioSeverity(confidence)
          /\ SameRatio(confidence, [num |-> 3, den |-> 10]) => result = "low"
          /\ SameRatio(confidence, [num |-> 6, den |-> 10]) => result = "moderate"

\* C9 witness: four keywords of twelve with only a 90-day-old severe
\* screening give moderate.
C9_Witness ==
    /\ Matched
    /\ screenings = <<Screening(90, "severe")>>
    /\ classification.confidence = [num |-> 4, den |-> 12]
    /\ classification.severity = "moderate"

\* The severity after a screening of the given band.
Escalated(severity, band) ==
    IF band \in {"severe", "moderate-severe"} THEN "high"
    ELSE IF band = "moderate" /\ severity = "low" THEN "moderate"
    ELSE severity

\* The screenings in the window than which none in the window is newer.
Latest ==
    {i \in InWindow :
        \A j \in InWindow : screenings[j].createdAt <= screenings[i].createdAt}

\* C10: when a non-crisis category matched and some screening is in the
\* window, the severity is the ratio's severity escalated by the band of a
\* most recently created screening of the window, and by nothing else.
C10_LatestScreeningOnly ==
    (Matched /\ InWindow # {}) =>
        \E i \in Latest :
            classification.severity =
                Escalated(RatioSeverity(classification.confidence),
                          screenings[i].severityBand)

\* C10 witness: a severe screening 30 days old followed in the list by a
\* minimal one 10 days old leaves the severity low.
C10_Witness ==
    /\ Matched
    /\ screenings = <<Screening(30, "severe"), Screening(10, "minimal")>>
    /\ classification.severity = "low"

(***************************************************************************)
(* Properties of buildResponse                                             *)
(***************************************************************************)

\* C2: buildResponse never throws and returns a non-empty message and a
\* non-empty list of quick replies, for every classification classify
\* produces and every language.
C2_ResponseNeverThrows ==
    (op = "chat" /\ pc = "done") =>
        /\ ~response.threw
        /\ Len(response.message) > 0
        /\ Len(response.quickReplies) > 0

(***************************************************************************)
(* Properties of the screening scorer                                      *)
(***************************************************************************)

\* The submitted value is an array of n answers of the scale.
ValidSubmission(n) ==
    /\ answers # NotAnArray
    /\ Len(answers) = n
    /\ \A i \in 1..n : answers[i] \in {Num(0), Num(1), Num(2), Num(3)}

\* The sum of the answers from position i on.
RECURSIVE SumFrom(_, _)
SumFrom(arr, i) == IF i > Len(arr) THEN 0 ELSE arr[i].v + SumFrom(arr, i + 1)

Scored(name) == op = name /\ pc = "done"

\* The PHQ-9 band of each total.
PHQ9Bands ==
    [total \in 0..27 |->
        IF total \in 0..4 THEN "minimal"
        ELSE IF total \in 5..9 THEN "mild"
        ELSE IF total \in 10..14 THEN "moderate"
        ELSE IF total \in 15..19 THEN "moderate-severe"
        ELSE "severe"]

\* The GAD-7 band of each total.
GAD7Bands ==
    [total \in 0..21 |->
        IF total \in 0..4 THEN "minimal"
        ELSE IF total \in 5..9 THEN "mild"
        ELSE IF total \in 10..14 THEN "moderate"
        ELSE "severe"]

\* C3: for a valid PHQ-9 vector the band is minimal for a total of 0..4, mild
\* for 5..9, moderate for 10..14, moderate-severe for 15..19, severe for 20..27.
C3_PHQ9Bands ==
    (Scored("scorePHQ9") /\ ValidSubmission(9)) =>
        /\ ~result.threw
        /\ result.severityBand = PHQ9Bands[SumFrom(answers, 1)]

\* C3 witness: a vector of total 5, the first total that is mild.
C3_Witness ==
    /\ Scored("scorePHQ9")
    /\ ValidSubmission(9)
    /\ SumFrom(answers, 1) = 5
    /\ result.severityBand = "mild"

\* C4: for a valid PHQ-9 vector the score is the sum of the nine answers, lies
\* in 0..27, and maxScore is 27.
C4_PHQ9Score ==
    (Scored("scorePHQ9") /\ ValidSubmission(9)) =>
        /\ ~result.threw
        /\ result.score = SumFrom(answers, 1)
        /\ result.score \in 0..27
        /\ result.maxScore = 27

\* C4 witness: nine answers of 3 score 27.
C4_Witness ==
    /\ Scored("scorePHQ9")
    /\ answers = [i \in 1..9 |-> Num(3)]
    /\ result.score = 27

\* C5: for a valid GAD-7 vector the score is the sum of the seven answers,
\* maxScore is 21, and the band is minimal for 0..4, mild for 5..9, moderate
\* for 10..14 and severe for 15..21, never moderate-severe.
C5_GAD7Score ==
    (Scored("scoreGAD7") /\ ValidSubmission(7)) =>
        /\ ~result.threw
        /\ result.score = SumFrom(answers, 1)
        /\ result.score \in 0..21
        /\ result.maxScore = 21
        /\ result.severityBand = GAD7Bands[result.score]
        /\ result.severityBand # "moderate-severe"

\* C5 witness: a vector of total 15, the first total that is severe.
C5_Witness ==
    /\ Scored("scoreGAD7")
    /\ ValidSubmission(7)
    /\ SumFrom(answers, 1) = 15
    /\ result.severityBand = "severe"

\* The text occurs in the message of the error.
Names(message, part) ==
    \E i \in 1..(Len(message) - Len(part) + 1) :
        SubSeq(message, i, i + Len(part) - 1) = part

\* The call threw an error that returns nothing and names the constraint.
Rejected(part) ==
    /\ result.threw
    /\ DOMAIN result = {"threw", "error", "message"}
    /\ Names(result.message, part)

\* The array has the given length and a value that is no integer in 0..3.
HasBadAnswer(n) ==
    /\ answers # NotAnArray
    /\ Len(answers) = n
    /\ \E i \in 1..n : answers[i] \notin {Num(0), Num(1), Num(2), Num(3)}

WrongLength(n) == answers = NotAnArray \/ Len(answers) # n

\* C6: an input whose length is not 9 (7 for GAD-7) is rejected with an error
\* that names the length, and one of the right length with a value that is
\* not an integer in 0..3 with an error that names the range; nothing is
\* scored.
C6_InvalidInputRejected ==
    /\ (Scored("scorePHQ9") /\ WrongLength(9)) => Rejected("exactly 9 answers")
    /\ (Scored("scorePHQ9") /\ HasBadAnswer(9)) =>
          Rejected("integers between 0 and 3")
    /\ (Scored("scoreGAD7") /\ WrongLength(7)) => Rejected("exactly 7 answers")
    /\ (Scored("scoreGAD7") /\ HasBadAnswer(7)) =>
          Rejected("integers between 0 and 3")

\* C6 witness: nine answers, one of them the string "2", rejected for the
\* range.
C6_Witness ==
    /\ Scored("scorePHQ9")
    /\ answers # NotAnArray
    /\ Len(answers) = 9
    /\ \E i \in 1..9 : answers[i] = Str(2)
    /\ \A i \in 1..9 : answers[i] \in {Num(0), Str(2)}
    /\ result.threw
    /\ Names(result.message, "integers between 0 and 3")

(***************************************************************************)
(* The screening augmentation.                                             *)
(***************************************************************************)

\* The order low < moderate < high < crisis.
SeverityRank == [low |-> 0, moderate |-> 1, high |-> 2, crisis |-> 3]

\* The texts and histories of the requests.
CallContexts ==
    {<<txt, <<>>>> : txt \in RequestTexts} \cup (PathTexts \X Histories)

\* What classify returns for each text and history with no screening, as a
\* table written out once.
NoScreenings ==
    [c \in CallContexts |-> classify(c[1], c[2], <<>>, Now)] @@ <<>>

\* C11: the severity classify returns is never lower, in the order
\* low < moderate < high < crisis, than the severity it returns for the same
\* text with an empty screenings list.
C11_OnlyEscalates ==
    Classified =>
        SeverityRank[classification.severity]
            >= SeverityRank[NoScreenings[<<text, history>>].severity]

\* C11 witness: a text whose ratio gives high keeps high after a recent
\* screening of band moderate.
C11_Witness ==
    /\ Classified
    /\ NoScreenings[<<text, history>>].severity = "high"
    /\ screenings = <<Screening(10, "moderate")>>
    /\ classification.severity = "high"

\* C12: a screening takes part in the augmentation exactly when now minus
\* createdAt is at most 60 days.  When every screening is older the result
\* is the one returned with no screening; a single screening aged 60 days
\* or less escalates the severity of a matched category by its band.
C12_SixtyDayWindow ==
    Classified =>
        /\ (\A i \in DOMAIN screenings :
                now - screenings[i].createdAt > 60 * 24) =>
              classification = NoScreenings[<<text, history>>]
        /\ (Matched /\ Len(screenings) = 1
                /\ now - screenings[1].createdAt <= 60 * 24) =>
              classification.severity =
                  Escalated(RatioSeverity(classification.confidence),
                            screenings[1].severityBand)

\* C12 witness: an ANXIETY text of low ratio with a severe screening created
\* exactly 60 days ago is classified high.
C12_Witness ==
    /\ Classified
    /\ text = "Anxious"
    /\ screenings = <<ScreeningAged(60 * 24, "severe")>>
    /\ classification.category = "ANXIETY"
    /\ classification.severity = "high"

\* The same text with the screening an hour older than 60 days stays low.
C12_JustOutside ==
    /\ Classified
    /\ text = "Anxious"
    /\ screenings = <<ScreeningAged(60 * 24 + 1, "severe")>>
    /\ classification.severity = "low"

\* The screenings that lack createdAt or severityBand.
Malformed ==
    {i \in DOMAIN screenings :
        {"createdAt", "severityBand"} \ DOMAIN screenings[i] # {}}

\* The list without its i-th record.
Without(list, i) == SubSeq(list, 1, i - 1) \o SubSeq(list, i + 1, Len(list))

\* C13: a screening record that lacks createdAt or severityBand is skipped:
\* classify returns what it returns for the list with that record removed.
C13_MalformedSkipped ==
    Classified =>
        \A i \in Malformed :
            classification = classify(text, history, Without(screenings, i), now)

\* A record without createdAt is left out by the recency filter.
C13_NoCreatedAtSkipped ==
    Classified =>
        \A i \in Malformed :
            "createdAt" \notin DOMAIN screenings[i] =>
                classification =
                    classify(text, history, Without(screenings, i), now)

\* The latest record of the window lacks severityBand and hides the severe
\* one created before it.
C13_BandlessMasksSevere ==
    /\ Classified
    /\ text = "Anxious"
    /\ screenings = <<[createdAt |-> Now - 10 * HOURS_PER_DAY],
                      Screening(30, "severe")>>
    /\ classification.severity = "low"

(***************************************************************************)
(* classify as a function of its arguments.                                *)
(***************************************************************************)

\* The classifications: a category, a severity, the crisis flag and a
\* confidence between 0 and 1.
Classifications ==
    [category : DOMAIN CATEGORY_TRIGGERS \cup {"GENERAL"},
     severity : {"low", "moderate", "high", "crisis"},
     crisis : BOOLEAN,
     confidence : {[num |-> n, den |-> d] : n \in 0..MaxKeywords,
                                            d \in 1..MaxKeywords}]

\* C14: for every text, the empty one included, and every well-formed
\* history and list of screenings, classify returns a classification and
\* does not throw.
C14_ClassifyTotal ==
    Classified =>
        /\ "threw" \notin DOMAIN classification
        /\ classification \in Classifications
        /\ classification.confidence.num <= classification.confidence.den

\* C14 witness: the empty text, classified GENERAL and low.
C14_Witness ==
    /\ Classified
    /\ text = ""
    /\ classification = GeneralResult

\* What classify returns with no previous message, for each text and list of
\* screenings that the requests combine with a history.
NoHistory ==
    [c \in PathTexts \X ContextLists |-> classify(c[1], <<>>, c[2], Now)] @@ <<>>

\* C16: the result of classify is the same for any two histories: with any
\* history it is the result for the same text and screenings with none.
C16_HistoryInert ==
    (Classified /\ text \in PathTexts /\ screenings \in ContextLists) =>
        classification = NoHistory[<<text, screenings>>]

\* C16 witness: a text without keyword after a previous message that holds a
\* keyword is classified GENERAL.
C16_Witness ==
    /\ Classified
    /\ text = "hello there"
    /\ Len(history) > 0
    /\ history[Len(history)].text = "I feel sad"
    /\ classification = GeneralResult

(***************************************************************************)
(* Properties of buildResponse                                             *)
(***************************************************************************)

Responded == op = "chat" /\ pc = "done"

\* The crisis fragments of a language: its own, or those of the default
\* language.
CrisisFragments(lang) ==
    IF lang \in {"en", "hi"} /\ "CRISIS" \in DOMAIN RESPONSE_TEMPLATES[lang]
    THEN RESPONSE_TEMPLATES[lang].CRISIS
    ELSE RESPONSE_TEMPLATES.en.CRISIS

\* The crisis bundle for a language, as far as the message, the quick
\* replies and the banner go.
IsCrisisBundle(r, lang) ==
    /\ ~r.threw
    /\ r.message = CrisisFragments(lang).immediate_safety \o " "
                   \o CrisisFragments(lang).crisis_resources \o " "
                   \o CrisisFragments(lang).support_available
    /\ r.quickReplies = <<"Show crisis resources", "Connect with counsellor",
                          "Find helplines">>
    /\ r.showCrisisBanner = TRUE

\* C17: when classification.crisis is true, buildResponse returns for the
\* requested language the immediate_safety, crisis_resources and
\* support_available fragments joined by single spaces, the three crisis
\* quick replies in order, and showCrisisBanner true.
C17_CrisisResponse ==
    (Responded /\ classification.crisis) => IsCrisisBundle(response, language)

\* With 'en', or a language that has no table and is no inherited property,
\* the crisis bundle is the one described.
C17_CrisisResponseInEnglish ==
    (Responded /\ classification.crisis /\ language \in {"en", "fr"}) =>
        IsCrisisBundle(response, language)

\* The categories with a template in some language.
Templated == DOMAIN RESPONSE_TEMPLATES.en \cup DOMAIN RESPONSE_TEMPLATES.hi

\* The language has a table of its own and the table holds the category.
HasOwnTemplate(lang, category) ==
    lang \in {"en", "hi"} /\ category \in DOMAIN RESPONSE_TEMPLATES[lang]

\* The message made of the validation sentence, the first two strategies and
\* the psychoeducation sentence of a template.
TemplatedMessage(template) ==
    template.validation \o " " \o template.strategies[1] \o " "
        \o template.strategies[2] \o " " \o template.psychoeducation

TemplateReplies ==
    <<"Tell me more", "Take screening", "Book session", "Browse resources">>

GenericMessage ==
    "I'm here to listen and support you. Can you tell me more about what's on your mind?"

GenericReplies == <<"Take screening test", "Book counselling", "Browse resources">>

\* C18: for a non-crisis classification, when the requested language is
\* unknown or has no template for the category and 'en' has one, the
\* response is built from the 'en' template of the category; the generic
\* message is returned only when no language has a template for the category.
C18_TemplateFallback ==
    (Responded /\ ~classification.crisis) =>
        /\ (classification.category \in DOMAIN RESPONSE_TEMPLATES.en
                /\ ~HasOwnTemplate(language, classification.category)) =>
              /\ ~response.threw
              /\ response.message =
                    TemplatedMessage(RESPONSE_TEMPLATES.en[classification.category])
              /\ response.quickReplies = TemplateReplies
        /\ (~response.threw /\ response.message = GenericMessage) =>
              classification.category \notin Templated

\* DEPRESSION has a template in 'en' and none in 'hi': with 'hi' the generic
\* message is returned.
C18_GenericInHindi ==
    /\ Responded
    /\ classification.category = "DEPRESSION"
    /\ language = "hi"
    /\ response.message = GenericMessage

\* C19: for a non-crisis classification whose category has no template, such
\* as GENERAL, the response is the generic message with the quick replies
\* 'Take screening test', 'Book counselling', 'Browse resources' and
\* showCrisisBanner false.
C19_GenericResponse ==
    (Responded /\ ~classification.crisis
        /\ classification.category \notin Templated) =>
        /\ ~response.threw
        /\ response.message = GenericMessage
        /\ response.quickReplies = GenericReplies
        /\ response.showCrisisBanner = FALSE

\* C19 witness: a GENERAL classification answered in 'hi' with the generic
\* message.
C19_Witness ==
    /\ Responded
    /\ classification.category = "GENERAL"
    /\ language = "hi"
    /\ response.message = GenericMessage
    /\ response.quickReplies = GenericReplies

\* The sentence occurs in the message.
Contains(message, sentence) ==
    \E i \in 1..(Len(message) - Len(sentence) + 1) :
        /\ SubSeq(message, i, i) = SubSeq(sentence, 1, 1)
        /\ SubSeq(message, i, i + Len(sentence) - 1) = sentence

\* The template buildResponse finds: the one of the language's table, or of
\* the 'en' table when the language names no table and nothing inherited.
FoundTemplate ==
    IF language \in {"en", "hi"}
    THEN RESPONSE_TEMPLATES[language][classification.category]
    ELSE RESPONSE_TEMPLATES.en[classification.category]

\* The request is answered from a template of the category.
HasTemplate ==
    /\ Responded
    /\ ~classification.crisis
    /\ \/ HasOwnTemplate(language, classification.category)
       \/ /\ language \notin {"en", "hi", "constructor"}
          /\ classification.category \in DOMAIN RESPONSE_TEMPLATES.en

Recommended == op = "getRecommendations" /\ pc = "done"

\* The lists of each instrument and band that has some, by language.
KnownLists(t, b) == recommendations.fields[t].fields[b].fields

\* The list the fallbacks lead to: an unknown instrument is PHQ9, a band the
\* instrument has no entry for is its minimal band, a language the band has
\* no list in is 'en'.
FallbackList(t, b, lang) ==
    LET instrument == IF t \in {"PHQ9", "GAD7"} THEN t ELSE "PHQ9"
        band == IF b \in DOMAIN recommendations.fields[instrument].fields
                THEN b ELSE "minimal"
        lists == KnownLists(instrument, band)
    IN  IF lang \in DOMAIN lists THEN lists[lang] ELSE lists.en

\* C21: getRecommendations never throws and returns a list for every type,
\* severity band and language, known or unknown: the instrument's minimal
\* band when it has no entry for the band, and the 'en' list when the band
\* has none in the language.
C21_RecommendationsNeverThrow ==
    Recommended =>
        /\ ~result.threw
        /\ result.value = FallbackList(reqType, reqBand, language)

\* The same for arguments that name nothing every object inherits.
C21_OwnNamesOnly ==
    (Recommended /\ {reqType, reqBand, language}
                        \cap ObjectPrototypeKeys = {}) =>
        /\ ~result.threw
        /\ result.value = FallbackList(reqType, reqBand, language)

\* GAD7 has no moderate-severe band: its minimal list is returned.
C21_MinimalBandUsed ==
    /\ Recommended
    /\ reqType = "GAD7"
    /\ reqBand = "moderate-severe"
    /\ language = "hi"
    /\ ~result.threw
    /\ result.value = KnownLists("GAD7", "minimal").en

(***************************************************************************)
(* Further properties of classify                                          *)
(***************************************************************************)

\* The non-crisis categories with a keyword in the text.
HitCategories(txt) ==
    {c \in DOMAIN CATEGORY_TRIGGERS \ {"CRISIS"} : Occurring[txt][c] > 0}

\* C22: a text with no crisis keyword whose keyword hits all belong to one
\* non-crisis category is classified as that category, with crisis false;
\* "I have a test tomorrow and can't focus" is ACADEMIC_STRESS.
C22_SingleCategoryHit ==
    Classified =>
        /\ (~HasCrisisKeyword(text) /\ Cardinality(HitCategories(text)) = 1) =>
              /\ classification.category \in HitCategories(text)
              /\ classification.crisis = FALSE
        /\ text = "I have a test tomorrow and can't focus" =>
              /\ classification.category = "ACADEMIC_STRESS"
              /\ classification.crisis = FALSE

\* C22 witness: the text of the example, whose one keyword is "can't focus",
\* classified ACADEMIC_STRESS.
C22_Witness ==
    /\ Classified
    /\ text = "I have a test tomorrow and can't focus"
    /\ HitCategories(text) = {"ACADEMIC_STRESS"}
    /\ Occurring[text].ACADEMIC_STRESS = 1
    /\ classification.category = "ACADEMIC_STRESS"
    /\ classification.crisis = FALSE

\* C23: every bundle buildResponse returns, on the crisis, the generic and
\* the templated path, holds a message, a list of quick replies, the
\* showCrisisBanner flag and a nextSteps string, and echoes the category and
\* the severity of the classification.
C23_BundleShape ==
    (Responded /\ ~response.threw) =>
        /\ {"message", "quickReplies", "showCrisisBanner", "nextSteps",
            "category", "severity"} \subseteq DOMAIN response
        /\ response.category = classification.category
        /\ response.severity = classification.severity

\* On the templated path the bundle has all six properties.
C23_TemplatedBundleShape ==
    HasTemplate =>
        /\ {"message", "quickReplies", "showCrisisBanner", "nextSteps",
            "category", "severity"} \subseteq DOMAIN response
        /\ response.category = classification.category
        /\ response.severity = classification.severity

\* The generic bundle has a message, quick replies and the banner flag only.
C23_GenericBundleIsShort ==
    /\ Responded
    /\ classification.category = "GENERAL"
    /\ language = "en"
    /\ DOMAIN response = {"threw", "message", "quickReplies", "showCrisisBanner"}

\* The crisis bundle has nextSteps and echoes neither category nor severity.
C23_CrisisBundleHasNoEcho ==
    /\ Responded
    /\ classification.crisis
    /\ language = "en"
    /\ DOMAIN response = {"threw", "message", "quickReplies",
                          "showCrisisBanner", "nextSteps"}

(***************************************************************************)
(* Properties of POST /chat/message                                        *)
(***************************************************************************)

\* The request on a session of the caller has ended.
MessageHandled ==
    op = "POST /chat/message" /\ pc = "done" /\ session.owned

\* The last two stored messages are the user's text and a bot message with
\* the category and severity of the classification.
BotMessageFollows ==
    /\ Len(chatMessages) >= 2
    /\ LET user == chatMessages[Len(chatMessages) - 1]
           bot == chatMessages[Len(chatMessages)]
       IN  /\ user.sender = "USER"
           /\ user.text = text
           /\ bot.sender = "BOT"
           /\ bot.category = classification.category
           /\ bot.severity = classification.severity

\* C24: a request with an accepted text on a session of the caller, with
\* language 'en' or 'hi', ends with the user message stored, one bot message
\* stored after it that carries the classification's category and severity,
\* the session's lastCategory and lastSeverity set to them, and success
\* returned; it never ends with the user message stored and no bot message.
C24_EveryMessageAnswered ==
    MessageHandled =>
        /\ reply.status = 200
        /\ BotMessageFollows
        /\ session.lastCategory = classification.category
        /\ session.lastSeverity = classification.severity

\* With 'en' every request on a session of the caller is answered.
C24_AnsweredInEnglish ==
    (MessageHandled /\ language = "en") =>
        /\ reply.status = 200
        /\ BotMessageFollows
        /\ session.lastCategory = classification.category
        /\ session.lastSeverity = classification.severity

\* A crisis message of a caller whose language is 'hi' is stored and answered
\* with status 500 and no bot message.
C24_CrisisUnanswered ==
    /\ MessageHandled
    /\ language = "hi"
    /\ classification.crisis
    /\ reply.status = 500
    /\ chatMessages[Len(chatMessages)].sender = "USER"
    /\ chatMessages[Len(chatMessages)].text = text

(***************************************************************************)
(* Properties of classify followed by buildResponse                        *)
(***************************************************************************)

\* C25: whenever buildResponse(classify(text, history, screenings), language)
\* returns, showCrisisBanner is true if and only if the text contains a
\* CRISIS keyword: neither a screening nor the keyword density turns the
\* banner on, and no match of another category turns it off.
C25_BannerFollowsCrisis ==
    (Responded /\ ~response.threw) =>
        (response.showCrisisBanner <=> HasCrisisKeyword(text))

\* A message without a CRISIS keyword, raised to severity high, is answered
\* without the banner.
C25_Witness ==
    /\ Responded
    /\ ~response.threw
    /\ ~HasCrisisKeyword(text)
    /\ classification.severity = "high"
    /\ response.showCrisisBanner = FALSE

\* A message with a CRISIS keyword and a keyword of another category is
\* answered with the banner.
C25_BannerDespiteOtherMatch ==
    /\ Responded
    /\ ~response.threw
    /\ HasCrisisKeyword(text)
    /\ \E category \in DOMAIN Occurring[text] :
           category # "CRISIS" /\ Occurring[text][category] > 0
    /\ response.showCrisisBanner = TRUE

\* The categories a classification may name.
DeclaredCategories ==
    {"ANXIETY", "DEPRESSION", "STRESS_BURNOUT", "SLEEP", "ACADEMIC_STRESS",
     "SOCIAL_ISOLATION", "CRISIS", "GENERAL"}

\* The severity levels a classification may name.
DeclaredSeverities == {"low", "moderate", "high", "crisis"}

\* C26: every result of classify names one of the 8 categories and one of the
\* severities low, moderate, high, crisis; crisis is true exactly when the
\* category is CRISIS and exactly when the severity is crisis; the category is
\* GENERAL exactly when the confidence is 0; the confidence lies in [0, 1].
C26_ClassificationConsistent ==
    Classified =>
        /\ classification.category \in DeclaredCategories
        /\ classification.severity \in DeclaredSeverities
        /\ classification.crisis \in BOOLEAN
        /\ classification.crisis <=> classification.category = "CRISIS"
        /\ classification.crisis <=> classification.severity = "crisis"
        /\ classification.category = "GENERAL"
               <=> classification.confidence.num = 0
        /\ classification.confidence.den > 0
        /\ 0 <= classification.confidence.num
        /\ classification.confidence.num <= classification.confidence.den

\* A message of a category, raised to high by a severe screening inside the
\* window, is classified without the crisis flag.
C26_Witness ==
    /\ Classified
    /\ Len(recentScreenings(screenings, now)) > 0
    /\ severityBandOf(latestScreening(recentScreenings(screenings, now)))
           = "severe"
    /\ classification.category \notin {"CRISIS", "GENERAL"}
    /\ classification.severity = "high"
    /\ classification.crisis = FALSE
    /\ classification.confidence.num > 0

(***************************************************************************)
(* Properties of the screening routes                                      *)
(***************************************************************************)

\* The number of answers and the band table of a screening type.
AnswersOf(type) == IF type = "PHQ9" THEN 9 ELSE 7
BandsOf(type) == IF type = "PHQ9" THEN PHQ9Bands ELSE GAD7Bands

\* The record has as many answers as its type asks, each an integer of 0..3,
\* their sum as score and the band of that score.
ValidRecord(record) ==
    /\ record.type \in {"PHQ9", "GAD7"}
    /\ Len(record.answers) = AnswersOf(record.type)
    /\ \A i \in 1..Len(record.answers) :
           /\ record.answers[i].t = "number"
           /\ ~record.answers[i].frac
           /\ record.answers[i].v \in 0..3
    /\ record.score = SumFrom(record.answers, 1)
    /\ record.severityBand = BandsOf(record.type)[record.score]

\* Scoring the stored answers again returns the stored score and band.
Rederivable(record) ==
    LET again == scoringFunction(record.type, record.answers)
    IN  /\ ~again.threw
        /\ again.score = record.score
        /\ again.severityBand = record.severityBand

\* The last request was a submission the scorer rejected.
RejectedSubmission ==
    /\ pc \in {"PHQ9", "GAD7"}
    /\ result # None
    /\ result.threw

\* C27: after any sequence of PHQ-9 and GAD-7 submissions every stored
\* screening has the number of answers of its type, each in 0..3, the sum of
\* the answers as score and the band of that score; a submission the scorer
\* rejects stores nothing; scoring a stored record's answers again on reading
\* it returns the stored score and band and does not throw.
C27_StoredScreeningsValid ==
    op = "screenings" =>
        /\ \A i \in 1..Len(storedScreenings) :
               /\ ValidRecord(storedScreenings[i])
               /\ Rederivable(storedScreenings[i])
        /\ RejectedSubmission =>
               /\ reply.status = 400
               /\ \A i \in 1..Len(storedScreenings) :
                      storedScreenings[i].createdAt # now - 1
        /\ (pc = "read" /\ reply.status # 404) =>
               /\ ~result.threw
               /\ reply.status = 200
               /\ result.score = reply.score
               /\ result.severityBand = reply.severityBand

\* A PHQ-9 record is stored, the submission after it was rejected by the
\* scorer and stored nothing.
C27_Witness ==
    /\ op = "screenings"
    /\ Len(storedScreenings) = 1
    /\ storedScreenings[1].type = "PHQ9"
    /\ storedScreenings[1].score = 15
    /\ storedScreenings[1].severityBand = "moderate-severe"
    /\ storedScreenings[1].createdAt = now - 2
    /\ pc = "GAD7"
    /\ RejectedSubmission
    /\ reply.status = 400

\* A stored GAD-7 record is read.
C27_ReadBack ==
    /\ op = "screenings"
    /\ pc = "read"
    /\ Len(storedScreenings) = 1
    /\ reply.status = 200
    /\ reply.id = 1
    /\ storedScreenings[1].type = "GAD7"
    /\ result.score = storedScreenings[1].score

\* The request has classified the message.
MessageClassified ==
    op = "POST /chat/message" /\ classification # None

\* C28: getRecentScreenings drops the screenings older than 60 days at its
\* own call time t1, classify applies its own 60-day filter at a later time
\* t2 >= t1; for every stored set of screenings classify on the provider's
\* list returns what classify returns at t2 on the full list of the caller's
\* screenings.
C28_ProviderFilterInert ==
    MessageClassified =>
        classification =
            classify(text, history, orderByCreatedAtDesc(storedScreenings), now)

\* The caller has a screening older than 60 days that the provider dropped
\* and a severe one created exactly 60 days before the provider's call that
\* the provider kept; classify, called an hour later, did not take it into
\* account.
C28_Witness ==
    /\ MessageClassified
    /\ storedScreenings = {Screening(60, "severe"), Screening(90, "severe")}
    /\ screenings = <<Screening(60, "severe")>>
    /\ now = Now + 1
    /\ classification.category \notin {"CRISIS", "GENERAL"}
    /\ classification.severity = "low"

(***************************************************************************)
(* Properties of the scoring over the shipped trigger lists                *)
(***************************************************************************)

\* The categories that are scored.
ScoredCategories == DOMAIN CATEGORY_TRIGGERS \ {"CRISIS"}

\* How many keywords of the category's list occur in the text.
MatchCount(txt, category) ==
    LET folded == Folded(txt)
    IN  Cardinality({i \in DOMAIN CATEGORY_TRIGGERS[category] :
                        Occurs(CATEGORY_TRIGGERS[category][i], folded)})

\* The ratio of `count` matches in the list of the category.
RatioOf(count, category) ==
    [num |-> count, den |-> Len(CATEGORY_TRIGGERS[category])]

\* C29 as stated: with the shipped lists a category with a single keyword
\* match can obtain a strictly higher ratio than, and be chosen over, a
\* category of a longer list with two or more matches.
C29_SingleBeatsSeveral ==
    op = "chat" =>
        \E short \in ScoredCategories, long \in ScoredCategories :
            /\ Len(CATEGORY_TRIGGERS[short]) < Len(CATEGORY_TRIGGERS[long])
            /\ \E several \in 2..Len(CATEGORY_TRIGGERS[long]) :
                   /\ RatioLess(RatioOf(several, long), RatioOf(1, short))
                   /\ bestCategory(<<[category |-> long,
                                      score |-> RatioOf(several, long)],
                                     [category |-> short,
                                      score |-> RatioOf(1, short)]>>).category
                          = short

\* C29 amended: with the shipped lists the ratio of a single match is below
\* the ratio of two or more matches in every other list, and a message with
\* two or more matches in some category is never given a category with a
\* single match; the asymmetry starts at two matches, which in a shorter list
\* outweigh three in a longer one.
C29_SingleNeverBeatsSeveral ==
    /\ \A short \in ScoredCategories, long \in ScoredCategories :
           \A several \in 2..Len(CATEGORY_TRIGGERS[long]) :
               RatioLess(RatioOf(1, short), RatioOf(several, long))
    /\ Classified =>
           ((\E category \in ScoredCategories : MatchCount(text, category) >= 2)
               => MatchCount(text, classification.category) >= 2)

\* Two SLEEP keywords are chosen over three DEPRESSION keywords.
C29_Witness ==
    /\ Classified
    /\ MatchCount(text, "SLEEP") = 2
    /\ MatchCount(text, "DEPRESSION") = 3
    /\ classification.category = "SLEEP"
    /\ classification.confidence = RatioOf(2, "SLEEP")

\* One SLEEP keyword is not chosen over two DEPRESSION keywords.
C29_SingleLoses ==
    /\ Classified
    /\ MatchCount(text, "SLEEP") = 1
    /\ MatchCount(text, "DEPRESSION") = 2
    /\ classification.category = "DEPRESSION"

(***************************************************************************)
(* Properties of POST /bookings                                            *)
(***************************************************************************)

\* The bookings i and j are both REQUESTED or CONFIRMED for one counsellor
\* and one time slot.
DoubleBooked(i, j) ==
    /\ i # j
    /\ bookings[i].status \in ActiveStatuses
    /\ bookings[j].status \in ActiveStatuses
    /\ bookings[i].counsellorId = bookings[j].counsellorId
    /\ bookings[i].timeSlot = bookings[j].timeSlot

\* C30: under any interleaving of concurrent POST /bookings requests there
\* are never two bookings with status REQUESTED or CONFIRMED for the same
\* counsellor and the same time slot; a request answered 409 has created
\* nothing.
C30_NoDoubleBooking ==
    op = "POST /bookings" =>
        /\ \A i \in DOMAIN bookings, j \in DOMAIN bookings : ~DoubleBooked(i, j)
        /\ \A r \in Clients :
               requests[r].status = 409 =>
                   \A i \in DOMAIN bookings : bookings[i].client # r

\* Two requests for one counsellor and one slot have both been answered 201
\* and both bookings are stored.
C30_BothCreated ==
    /\ op = "POST /bookings"
    /\ Len(bookings) = 2
    /\ DoubleBooked(1, 2)
    /\ \A r \in Clients : requests[r].status = 201

\* A request for a slot with a confirmed booking is answered 409 and has
\* created nothing.
C30_ConflictAnswered ==
    /\ op = "POST /bookings"
    /\ \E r \in Clients :
           /\ requests[r].status = 409
           /\ \A i \in DOMAIN bookings : bookings[i].client # r
           /\ bookings[1].status = "CONFIRMED"

====
